---- MODULE Spec2Model ----
(***************************************************************************)
(* dirdiff: comparison of two directory trees.                             *)
(*                                                                         *)
(* The module models one run of main -> runMaster: the scan of both sides  *)
(* (coreScan), the reconciliation of the two scan results with the         *)
(* directory-subsumption pruning (isInside), the worker pool with its      *)
(* three comparison stages (size, quick MD5, full or sparse SHA), the      *)
(* classifier printAndDetermineExit and the exit-code mapping of main.     *)
(*                                                                         *)
(* A relative path is the sequence of its components, <<"a","b">> for      *)
(* "a/b"; the empty sequence stands for the root (path.Dir returns ".").   *)
(* The bytes of a file are its size and the set of offsets that hold the   *)
(* byte 'B'; every other offset holds 'A' (the files of createLargeFile).  *)
(* A digest is the byte stream handed to the hash function, so two digests *)
(* are equal exactly when the hashed streams are equal.                    *)
(***************************************************************************)
EXTENDS Integers, Sequences, FiniteSets, TLC

VARIABLES
    fsA, fsB,        \* the two directory trees: path -> entry
    showAll,         \* --show-all
    fastSet,         \* the relative paths that some --fast glob matches
    globalLimit,     \* args.GlobalLimit
    includes,        \* the --include globs
    excludes,        \* the --exclude globs
    workers,         \* --workers
    pc,              \* position of main/runMaster
    open,            \* the sides whose node is created and not yet closed
    filesA, filesB,  \* Scan results: relative path -> size
    dirsA, dirsB,    \* Scan results: directory lists
    results,         \* runMaster's results slice
    jobCh,           \* the (closed) job channel: paths not yet picked up
    resultCh,        \* the result channel
    progress,        \* number of signals sent on progressCh
    wpc, wjob,       \* per worker: position and the path it works on
    cancelled,       \* ctx.Done() is closed
    failed,          \* common paths for which some hash call returned an error
    ret,             \* the error returned by app.Run
    exitCode,        \* the exit status of the process
    FollowSym,       \* args.FollowSym
    kind,            \* per side: the node is a LocalNode or a RemoteNode
    closeLog,        \* the operations of the Close calls made so far
    targetsOpened,   \* <<side, path>> of the symlinks whose target os.Open opened
    hashLog,         \* the GetMD5 and GetSHA calls made, with what they returned
    hEntryA, hEntryB,  \* the hasher alone: the two entries to hash
    hLimit,            \* the hasher alone: the limit
    hDigests,          \* the hasher alone: the digests computed
    npc,             \* NewRemoteNode and the node it returns: position
    sel,             \* the case that ended the select of NewRemoteNode
    nret,            \* what NewRemoteNode returned
    rdr,             \* the goroutine that reads the subprocess's output
    agent,           \* the ssh subprocess with the agent behind it
    printed,         \* the lines the subprocess has written to its output
    nread,           \* how many of them the reader goroutine has read
    readyCh,         \* the channel readyCh (capacity 1)
    stdin,           \* the RPC requests written to the subprocess's input
    served,          \* how many of them the agent has served
    call,            \* the RPC call in flight, or the last one
    client,          \* the RPC client: none, open, closed
    waited,          \* cmd.Wait() has returned
    cancelledAt,     \* the position of NewRemoteNode when ctx was cancelled
    stack,           \* the scanner alone: the calls of walk not yet made
    visitedPaths,    \* the scanner alone: the resolved paths already visited
    mon,             \* the stderr monitor alone: position of the goroutine
    window,          \* the stderr monitor alone: the matching window
    stderrBuf,       \* the stderr monitor alone: every byte read so far
    fired            \* the lengths of stderrBuf at which a password was written

vars == <<fsA, fsB, showAll, fastSet, globalLimit, includes, excludes, workers,
          pc, open, filesA,
          filesB, dirsA, dirsB, results, jobCh, resultCh, progress, wpc, wjob,
          cancelled, failed, ret, exitCode, FollowSym, kind, closeLog,
          targetsOpened, hashLog, hEntryA, hEntryB, hLimit, hDigests, npc, sel, nret,
          rdr, agent, printed, nread, readyCh, stdin, served, call, client,
          waited, cancelledAt, stack, visitedPaths, mon, window, stderrBuf,
          fired>>

----------------------------------------------------------------------------
(* Bounds of the model *)

MaxWorkers == 2      \* --workers ranges over 0..MaxWorkers
MaxLen == 3          \* longest diff-item list handed to the classifier alone
MaxSize == 7         \* largest file handed to the hasher alone
MaxLimit == 4        \* largest limit handed to the hasher alone
MaxNoise == 2        \* lines the subprocess prints besides the ready message
MaxCalls == 1        \* RPC calls made on one remote node
MaxDepth == 12       \* longest path, in components, that walk is called on
MaxBytes == 6        \* bytes the subprocess writes to its diagnostic stream

----------------------------------------------------------------------------
(* Paths *)

Root == <<>>

Paths == { <<"a">>, <<"a", "b">>, <<"a", "b", "c">>, <<"f">> }

\* path.Dir on a relative slash path
Dir(p) == IF Len(p) <= 1 THEN Root ELSE SubSeq(p, 1, Len(p) - 1)

\* the byte of a one-letter component name
Byte(n) == CASE n = "a" -> 97 [] n = "b" -> 98 [] n = "c" -> 99 [] n = "f" -> 102

\* the bytes of the slash-separated string of a path
RECURSIVE ToSlash(_)
ToSlash(p) ==
    IF p = <<>> THEN <<>>
    ELSE IF Len(p) = 1 THEN << Byte(p[1]) >>
    ELSE << Byte(p[1]), 47 >> \o ToSlash(Tail(p))

\* Go's string comparison s < t, on byte sequences
RECURSIVE BytesLess(_, _)
BytesLess(s, t) ==
    IF t = <<>> THEN FALSE
    ELSE IF s = <<>> THEN TRUE
    ELSE IF Head(s) < Head(t) THEN TRUE
    ELSE IF Head(s) > Head(t) THEN FALSE
    ELSE BytesLess(Tail(s), Tail(t))

StrLess(p, q) == BytesLess(ToSlash(p), ToSlash(q))

RECURSIVE InsertSorted(_, _)
InsertSorted(x, s) ==
    IF s = <<>> THEN << x >>
    ELSE IF StrLess(x, Head(s)) THEN << x >> \o s
    ELSE << Head(s) >> \o InsertSorted(x, Tail(s))

\* sort.Strings
RECURSIVE SortStrings(_)
SortStrings(s) ==
    IF s = <<>> THEN <<>> ELSE InsertSorted(Head(s), SortStrings(Tail(s)))

RECURSIVE SetToSortedSeq(_)
SetToSortedSeq(S) ==
    IF S = {} THEN <<>>
    ELSE LET x == CHOOSE y \in S : \A z \in S : z = y \/ StrLess(y, z)
         IN  << x >> \o SetToSortedSeq(S \ {x})

Range(s) == { s[i] : i \in DOMAIN s }

----------------------------------------------------------------------------
(* Directory trees *)

NoContent == [size |-> 0, bs |-> {}]

LargeSize == 1024 * 1024 + 100

Small      == [size |-> 8, bs |-> {}]
SmallMod   == [size |-> 8, bs |-> {7}]
Large      == [size |-> LargeSize, bs |-> {}]
LargeEnd   == [size |-> LargeSize, bs |-> {LargeSize - 1}]
LargeGap   == [size |-> LargeSize, bs |-> {LargeSize \div 3}]

LargeContents == { Large, LargeEnd, LargeGap }

\* what a symlink resolves to: the resolved path ("" when it does not resolve)
\* and, when that is a regular file, its bytes
NoTarget == [path |-> "", content |-> NoContent]

Absent  == [kind |-> "none", content |-> NoContent, target |-> NoTarget]
DirEnt  == [kind |-> "dir",  content |-> NoContent, target |-> NoTarget]
FileEnt(c) == [kind |-> "file", content |-> c, target |-> NoTarget]

\* a symlink: its own bytes are the target string t (Lstat's size is the
\* length of t), and it resolves to r = [path, content]
LinkEnt(t, r) == [kind |-> "link", content |-> t, target |-> r]

\* a tree is well formed when every entry lies in a directory
WellFormed(fs) ==
    \A p \in Paths :
        (fs[p].kind # "none" /\ Dir(p) # Root) => fs[Dir(p)].kind = "dir"

\* the trees of the model: "a", "a/b" are directories or files, "a/b/c" and "f"
\* are files, and only "f" is ever a large file
Trees(smallSet, largeSet) ==
    { fs \in [Paths -> {Absent, DirEnt} \cup { FileEnt(c) : c \in smallSet \cup largeSet }] :
        /\ WellFormed(fs)
        /\ fs[<<"a", "b", "c">>].kind # "dir"
        /\ fs[<<"f">>].kind # "dir"
        /\ \A p \in Paths \ { <<"f">> } : fs[p].content \notin largeSet }

\* the value of fsA and fsB before the scan has read the tree
Unread == [p \in Paths |-> [kind |-> "unread", content |-> NoContent,
                             target |-> NoTarget]]

\* a root that os.Lstat cannot stat: the path does not exist
Missing == [p \in Paths |-> [kind |-> "noroot", content |-> NoContent,
                              target |-> NoTarget]]

----------------------------------------------------------------------------
(* Scanner: coreScan *)

EmptyMap == [x \in {} |-> 0]

MapSet(m, k, v) == [x \in DOMAIN m \cup {k} |-> IF x = k THEN v ELSE m[x]]

\* fault variant: no glob ever matches
AnyMatch_never(globs, slashRel) == FALSE

\* g.Match(slashRel) for some glob of the list; a glob is the set of the
\* relative paths it matches
AnyMatch(globs, slashRel) == \E g \in globs : slashRel \in g

\* fault variant: every entry of the directory is returned twice
ReadDir_twice(fs, curr) ==
    SetToSortedSeq({ q \in Paths : Dir(q) = curr /\ fs[q].kind # "none" })
        \o SetToSortedSeq({ q \in Paths : Dir(q) = curr /\ fs[q].kind # "none" })

\* os.ReadDir: the entries of a directory, sorted by name
ReadDir(fs, curr) ==
    SetToSortedSeq({ q \in Paths : Dir(q) = curr /\ fs[q].kind # "none" })

RECURSIVE walk(_, _, _, _, _, _)
RECURSIVE walkEntries(_, _, _, _, _, _)

\* acc = [files, dirs, visitedPaths]. A followed symlink resolves to a regular
\* file or does not resolve at all.
walk(fs, curr, incGlobs, excGlobs, followSym, acc) ==
    IF curr = Root /\ fs = Missing THEN acc
    ELSE IF curr # Root /\ fs[curr].kind = "none" THEN acc
    ELSE LET isSym    == curr # Root /\ fs[curr].kind = "link"
             realPath == fs[curr].target.path
             followed == isSym /\ followSym
         IN  IF followed /\ realPath = "" THEN acc
             ELSE IF followed /\ realPath \in acc.visitedPaths THEN acc
             ELSE LET acc1 == IF followed
                              THEN [acc EXCEPT !.visitedPaths = @ \cup {realPath}]
                              ELSE acc
                      size == IF followed THEN fs[curr].target.content.size
                              ELSE fs[curr].content.size
                  IN  IF curr # Root /\ AnyMatch(excGlobs, curr) THEN acc1
                      ELSE IF curr = Root \/ fs[curr].kind = "dir"
                           THEN walkEntries(fs, ReadDir(fs, curr), incGlobs, excGlobs,
                                    followSym,
                                    IF curr # Root
                                    THEN [acc1 EXCEPT !.dirs = Append(@, curr)]
                                    ELSE acc1)
                      ELSE IF incGlobs # {} /\ ~AnyMatch(incGlobs, curr) THEN acc1
                      ELSE [acc1 EXCEPT !.files = MapSet(@, curr, size)]

walkEntries(fs, entries, incGlobs, excGlobs, followSym, acc) ==
    IF entries = <<>> THEN acc
    ELSE walkEntries(fs, Tail(entries), incGlobs, excGlobs, followSym,
                     walk(fs, Head(entries), incGlobs, excGlobs, followSym, acc))

\* the error of coreScan is the error of compileGlobs; walk returns nil always
coreScan(fs, incl, excl, followSym) ==
    walk(fs, Root, incl, excl, followSym,
         [files |-> EmptyMap, dirs |-> <<>>, visitedPaths |-> {}])

----------------------------------------------------------------------------
(* Sparse Hasher: computeSparseHash, coreMD5, coreSHA *)

NoHash == [alg |-> "", len |-> 0, bs |-> {}]

HashErr == [err |-> TRUE, hash |-> NoHash]

\* the bytes [off, off+n) of a file, as the offsets within the region that hold 'B'
ReadAt(c, off, n) == { q - off : q \in { r \in c.bs : off <= r /\ r < off + n } }

\* fault variant: a symlink is followed whatever followSym says
computeSparseHash_alwaysFollow(e, alg, limit, followSym) ==
    IF e.kind \notin { "file", "dir", "link" } THEN HashErr
    ELSE IF e.kind = "dir" THEN HashErr
    ELSE IF e.kind = "link"
         THEN IF e.target.path = "" THEN HashErr
              ELSE [err |-> FALSE,
                    hash |-> [alg |-> alg, len |-> e.target.content.size,
                              bs |-> e.target.content.bs]]
    ELSE [err |-> FALSE,
          hash |-> [alg |-> alg, len |-> e.content.size, bs |-> e.content.bs]]

\* fault variant: the limit is ignored, the whole file is hashed
hashContent_noLimit(c, alg, limit) ==
    [err |-> FALSE, hash |-> [alg |-> alg, len |-> c.size, bs |-> c.bs]]

\* computeSparseHash from fileSize on: the bytes c of the opened file
hashContent(c, alg, limit) ==
    IF limit <= 0 \/ c.size <= limit
    THEN [err |-> FALSE, hash |-> [alg |-> alg, len |-> c.size, bs |-> c.bs]]
    ELSE LET chunkSize     == limit \div 3
             lastChunkSize == limit - (chunkSize * 2)
             mid           == (c.size \div 2) - (chunkSize \div 2)
             last          == c.size - lastChunkSize
         IN  IF \/ chunkSize > c.size
                \/ mid < 0 \/ mid + chunkSize > c.size
                \/ last < 0
             THEN HashErr
             ELSE [err  |-> FALSE,
                   hash |-> [alg |-> alg,
                             len |-> chunkSize + chunkSize + lastChunkSize,
                             bs  |-> ReadAt(c, 0, chunkSize)
                                     \cup { chunkSize + r : r \in ReadAt(c, mid, chunkSize) }
                                     \cup { 2 * chunkSize + r : r \in ReadAt(c, last, lastChunkSize) }]]

\* os.Open follows a symlink: the call opens the link's target
opensTarget(e, followSym) == e.kind = "link" /\ followSym /\ e.target.path # ""

\* e is the entry at the path: Lstat fails when there is none; the target
\* string of a symlink is hashed when links are not followed; reading a
\* directory fails; os.Open of a symlink that does not resolve fails
computeSparseHash(e, alg, limit, followSym) ==
    IF e.kind \notin { "file", "dir", "link" } THEN HashErr
    ELSE IF e.kind = "link" /\ ~followSym
         THEN [err |-> FALSE,
               hash |-> [alg |-> alg, len |-> e.content.size, bs |-> e.content.bs]]
    ELSE IF e.kind = "dir" THEN HashErr
    ELSE IF e.kind = "link"
         THEN IF e.target.path = "" THEN HashErr
              ELSE hashContent(e.target.content, alg, limit)
    ELSE hashContent(e.content, alg, limit)

coreMD5(fs, relPath, followSym) ==
    computeSparseHash(fs[relPath], "md5", 1024, followSym)

\* fault variant: the full hash is taken with the quick hash's limit
coreSHA_quickLimit(fs, relPath, limit, followSym) ==
    computeSparseHash(fs[relPath], "sha256", 1024, followSym)

coreSHA(fs, relPath, limit, followSym) ==
    computeSparseHash(fs[relPath], "sha256", limit, followSym)

\* a node's GetMD5/GetSHA: the call fails (I/O error, RPC error, reply.Error)
\* or returns what coreMD5/coreSHA computes
GetMD5(fs, relPath, followSym, fails) ==
    IF fails THEN HashErr ELSE coreMD5(fs, relPath, followSym)

GetSHA(fs, relPath, limit, followSym, fails) ==
    IF fails THEN HashErr ELSE coreSHA(fs, relPath, limit, followSym)

----------------------------------------------------------------------------
(* Comparison Pipeline: reconciliation (runMaster) *)

Item(p, t, d) == [Path |-> p, Type |-> t, IsDir |-> d]

RECURSIVE insideFrom(_, _)
insideFrom(d, dirSet) ==
    IF d = Root THEN FALSE
    ELSE IF d \in dirSet THEN TRUE
    ELSE insideFrom(Dir(d), dirSet)

\* fault variant: the walk starts at the path itself instead of its parent
isInside_fromSelf(slashPath, dirSet) == insideFrom(slashPath, dirSet)

isInside(slashPath, dirSet) == insideFrom(Dir(slashPath), dirSet)

\* fault variant: delete(dirMapA, d) is missing, the directories of A that B
\* has as well stay in dirMapA
RECURSIVE addedDirsLoop_noDelete(_, _, _)
addedDirsLoop_noDelete(ds, st, all) ==
    IF ds = <<>> THEN st
    ELSE LET d  == Head(ds)
             ad == st.addedDirs \cup {d}
         IN  IF d \notin st.dirMapA
             THEN IF ~all /\ isInside(d, ad)
                  THEN addedDirsLoop_noDelete(Tail(ds), [st EXCEPT !.addedDirs = ad], all)
                  ELSE addedDirsLoop_noDelete(Tail(ds),
                           [st EXCEPT !.addedDirs = ad,
                                      !.results = Append(@, Item(d, "Added", TRUE))], all)
             ELSE addedDirsLoop_noDelete(Tail(ds), st, all)

\* for _, d := range dirsB, over the sorted list; st = [dirMapA, addedDirs, results]
RECURSIVE addedDirsLoop(_, _, _)
addedDirsLoop(ds, st, all) ==
    IF ds = <<>> THEN st
    ELSE LET d  == Head(ds)
             ad == st.addedDirs \cup {d}
         IN  IF d \notin st.dirMapA
             THEN IF ~all /\ isInside(d, ad)
                  THEN addedDirsLoop(Tail(ds),
                           [st EXCEPT !.addedDirs = ad, !.dirMapA = @ \ {d}], all)
                  ELSE addedDirsLoop(Tail(ds),
                           [st EXCEPT !.addedDirs = ad, !.dirMapA = @ \ {d},
                                      !.results = Append(@, Item(d, "Added", TRUE))], all)
             ELSE addedDirsLoop(Tail(ds), [st EXCEPT !.dirMapA = @ \ {d}], all)

\* for _, d := range remainingDirsA, over the sorted list; st = [removedDirs, results]
RECURSIVE removedDirsLoop(_, _, _)
removedDirsLoop(ds, st, all) ==
    IF ds = <<>> THEN st
    ELSE LET d  == Head(ds)
             rd == st.removedDirs \cup {d}
         IN  IF ~all /\ isInside(d, rd)
             THEN removedDirsLoop(Tail(ds), [st EXCEPT !.removedDirs = rd], all)
             ELSE removedDirsLoop(Tail(ds),
                      [st EXCEPT !.removedDirs = rd,
                                 !.results = Append(@, Item(d, "Removed", TRUE))], all)

\* for relPath := range files: the files of one side that the other side lacks.
\* The order of a range over a map is unspecified; the list is sorted by path
\* before it is used (printAndDetermineExit), so the keys are taken in order.
RECURSIVE uniqueFilesLoop(_, _, _, _, _, _)
uniqueFilesLoop(keys, other, uniqueDirs, type, res, all) ==
    IF keys = <<>> THEN res
    ELSE LET relPath == Head(keys)
         IN  IF relPath \notin DOMAIN other
             THEN IF ~all /\ isInside(relPath, uniqueDirs)
                  THEN uniqueFilesLoop(Tail(keys), other, uniqueDirs, type, res, all)
                  ELSE uniqueFilesLoop(Tail(keys), other, uniqueDirs, type,
                                       Append(res, Item(relPath, type, FALSE)), all)
             ELSE uniqueFilesLoop(Tail(keys), other, uniqueDirs, type, res, all)

commonFilesOf(fA, fB) == { relPath \in DOMAIN fA : relPath \in DOMAIN fB }

reconcile(fA, dA, fB, dB, all) ==
    LET s1 == addedDirsLoop(SortStrings(dB),
                            [dirMapA |-> Range(dA), addedDirs |-> {}, results |-> <<>>],
                            all)
        s2 == removedDirsLoop(SetToSortedSeq(s1.dirMapA),
                              [removedDirs |-> {}, results |-> s1.results], all)
        r3 == uniqueFilesLoop(SetToSortedSeq(DOMAIN fA), fB, s2.removedDirs,
                              "Removed", s2.results, all)
        r4 == uniqueFilesLoop(SetToSortedSeq(DOMAIN fB), fA, s1.addedDirs,
                              "Added", r3, all)
    IN  [results     |-> r4,
         commonFiles |-> commonFilesOf(fA, fB),
         addedDirs   |-> s1.addedDirs,
         removedDirs |-> s2.removedDirs]

\* sort.Slice(commonFiles, filesA[i] > filesA[j]): every order of the common
\* files in which no later file is larger than an earlier one
RECURSIVE sortBySizeDesc(_, _)
sortBySizeDesc(S, fA) ==
    IF S = {} THEN { <<>> }
    ELSE UNION { { << x >> \o rest : rest \in sortBySizeDesc(S \ {x}, fA) } :
                 x \in { y \in S : \A z \in S : fA[y] >= fA[z] } }

----------------------------------------------------------------------------
(* Outcome Classifier: printAndDetermineExit, and main's exit codes *)

RemoveAt(s, i) == SubSeq(s, 1, i - 1) \o SubSeq(s, i + 1, Len(s))

\* sort.Slice(results, Path < Path): the sort is not stable, items with the
\* same path end up in either order
RECURSIVE sortByPath(_)
sortByPath(s) ==
    IF s = <<>> THEN { <<>> }
    ELSE UNION { { << s[i] >> \o rest : rest \in sortByPath(RemoveAt(s, i)) } :
                 i \in { j \in DOMAIN s :
                           \A k \in DOMAIN s : ~StrLess(s[k].Path, s[j].Path) } }

Count(s, type, isDir) ==
    Cardinality({ i \in DOMAIN s : s[i].Type = type /\ s[i].IsDir = isDir })

\* fault variant: added and removed directories are not counted
printAndDetermineExit_filesOnly(res) ==
    LET hasAdded    == Count(res, "Added", FALSE) > 0
        hasRemoved  == Count(res, "Removed", FALSE) > 0
        hasModified == Count(res, "Modified", FALSE) > 0
    IN  IF Len(res) = 0 THEN "nil"
        ELSE IF hasModified \/ (hasAdded /\ hasRemoved) THEN "ErrDiffsFound"
        ELSE IF hasAdded THEN "ErrASubsetB"
        ELSE IF hasRemoved THEN "ErrBSubsetA"
        ELSE "nil"

printAndDetermineExit(res) ==
    LET addedFiles    == Count(res, "Added", FALSE)
        removedFiles  == Count(res, "Removed", FALSE)
        modifiedFiles == Count(res, "Modified", FALSE)
        addedDirs     == Count(res, "Added", TRUE)
        removedDirs   == Count(res, "Removed", TRUE)
        hasAdded      == addedFiles > 0 \/ addedDirs > 0
        hasRemoved    == removedFiles > 0 \/ removedDirs > 0
        hasModified   == modifiedFiles > 0
    IN  IF Len(res) = 0 THEN "nil"
        ELSE IF hasModified \/ (hasAdded /\ hasRemoved) THEN "ErrDiffsFound"
        ELSE IF hasAdded THEN "ErrASubsetB"
        ELSE IF hasRemoved THEN "ErrBSubsetA"
        ELSE "nil"

\* fault variant: the codes of the two subset verdicts are exchanged
ExitCode_swapped(err) ==
    IF err = "nil" THEN 0
    ELSE IF err = "ErrASubsetB" THEN 4
    ELSE IF err = "ErrBSubsetA" THEN 3
    ELSE IF err = "ErrDiffsFound" THEN 1
    ELSE 2

\* main: the exit status for the error app.Run returned
ExitCode(err) ==
    IF err = "nil" THEN 0
    ELSE IF err = "ErrASubsetB" THEN 3
    ELSE IF err = "ErrBSubsetA" THEN 4
    ELSE IF err = "ErrDiffsFound" THEN 1
    ELSE 2

----------------------------------------------------------------------------
(* The run: main -> app.Run -> runMaster *)

FastLimit == 1024 * 1024     \* --fast-limit, default "1MB"

GlobalLimits == { 0, 2 * 1024 }

FastSets == { {}, { <<"f">> } }

\* a limit only changes the digest of a file larger than the limit: the runs
\* that configure one (a fast glob, a global limit) are explored on the trees
\* in which "f" is a large file
sparseConfigured == fastSet # {} \/ globalLimit > 0

AllTreesA == Trees({ Small }, { Large })

AllTreesB == Trees({ Small, SmallMod }, LargeContents)

\* the node of a side serves every call the same way whatever its kind: the
\* runs with a RemoteNode are explored on the trees that hold "f" at most
remoteRun == \E side \in DOMAIN kind : kind[side] = "remote"

Explored(fs) ==
    /\ sparseConfigured => fs[<<"f">>].content \in LargeContents
    /\ remoteRun => \A p \in Paths \ { <<"f">> } : fs[p].kind = "none"

\* the trees a root can hold, and the root that does not exist; a tree the
\* initial state has fixed already is scanned as it is
TreesA ==
    IF fsA # Unread THEN { fsA }
    ELSE { fs \in AllTreesA : Explored(fs) }
             \cup (IF sparseConfigured \/ remoteRun THEN {} ELSE { Missing })

TreesB ==
    IF fsB # Unread THEN { fsB }
    ELSE { fs \in AllTreesB : Explored(fs) }
             \cup (IF sparseConfigured \/ remoteRun THEN {} ELSE { Missing })

NoJob == Root

Idle ==
    /\ open = {}
    /\ filesA = EmptyMap /\ filesB = EmptyMap
    /\ dirsA = <<>> /\ dirsB = <<>>
    /\ results = <<>>
    /\ jobCh = <<>> /\ resultCh = <<>>
    /\ progress = 0
    /\ wpc = <<>> /\ wjob = <<>>
    /\ cancelled = FALSE
    /\ failed = {}
    /\ ret = "none"
    /\ exitCode = -1
    /\ kind = [side \in { "A", "B" } |-> "none"]
    /\ closeLog = <<>>
    /\ targetsOpened = {}
    /\ hashLog = {}

\* the hasher alone is not in use
IdleHasher ==
    /\ hEntryA = Absent /\ hEntryB = Absent
    /\ hLimit = 0
    /\ hDigests = <<>>

NoCall == [m |-> "none", stage |-> "done"]

\* no remote node is under construction
IdleRemote ==
    /\ npc = "none" /\ sel = "none" /\ nret = "none"
    /\ rdr = "none" /\ agent = "none"
    /\ printed = <<>> /\ nread = 0
    /\ readyCh = <<>>
    /\ stdin = <<>> /\ served = 0
    /\ call = NoCall
    /\ client = "none"
    /\ waited = FALSE
    /\ cancelledAt = "none"

\* the scanner alone is not in use
IdleWalk == stack = <<>> /\ visitedPaths = {}

\* the stderr monitor alone is not in use
IdleMonitor == mon = "none" /\ window = <<>> /\ stderrBuf = <<>> /\ fired = {}

monitor == <<mon, window, stderrBuf, fired>>

Init ==
    /\ fsA = Unread /\ fsB = Unread
    /\ showAll = FALSE
    /\ includes = {} /\ excludes = {}
    /\ fastSet = {}
    /\ globalLimit = 0
    /\ workers = 0
    /\ FollowSym = FALSE
    /\ pc = "parseArgs"
    /\ Idle
    /\ IdleHasher
    /\ IdleRemote
    /\ IdleWalk
    /\ IdleMonitor

config == <<fsA, fsB, showAll, fastSet, globalLimit, includes, excludes, workers>>

scanned == <<filesA, filesB, dirsA, dirsB>>

pool == <<jobCh, resultCh, progress, wpc, wjob, failed>>

remote == <<npc, sel, nret, rdr, agent, printed, nread, readyCh, stdin, served,
            call, client, waited, cancelledAt>>

\* the variables of the other specifications of this module
elsewhere == <<hEntryA, hEntryB, hLimit, hDigests, remote, stack, visitedPaths,
               monitor>>

\* main passes no link-following setting: cli.go declares no such flag and
\* its ParsedArgs has no such field, so args.FollowSym is the zero value
FollowSyms == { FALSE }

NodeKinds == { "local", "remote" }

\* a step of main that fails: the error is returned, deferred calls run first
Return(err) ==
    /\ ret' = err
    /\ pc' = IF open = {} THEN "returned" ELSE "deferred"

\* parseArgs: two positional arguments and valid limits, or an error
ParseArgs ==
    /\ pc = "parseArgs"
    /\ \E ok \in BOOLEAN :
          IF ok THEN /\ showAll' \in BOOLEAN
                     /\ fastSet' \in FastSets
                     /\ globalLimit' \in GlobalLimits
                     /\ workers' \in 0 .. MaxWorkers
                     /\ FollowSym' \in FollowSyms
                     /\ pc' = "createA" /\ ret' = ret
                ELSE /\ Return("invalid arguments")
                     /\ UNCHANGED <<showAll, fastSet, globalLimit, workers,
                                    FollowSym>>
    /\ UNCHANGED <<fsA, fsB, includes, excludes, scanned, pool, open, results,
                   cancelled, exitCode>>
    /\ UNCHANGED <<kind, closeLog, targetsOpened, hashLog, elsewhere>>

\* nodeA, _, err := createNode(...); defer nodeA.Close()
CreateNodeA ==
    /\ pc = "createA"
    /\ \E ok \in BOOLEAN :
          IF ok THEN /\ pc' = "createB" /\ open' = {"A"} /\ ret' = ret
                     /\ \E k \in NodeKinds : kind' = [kind EXCEPT !["A"] = k]
                ELSE Return("setup A failed") /\ open' = open /\ kind' = kind
    /\ UNCHANGED <<config, scanned, pool, results, cancelled, exitCode>>
    /\ UNCHANGED <<FollowSym, closeLog, targetsOpened, hashLog, elsewhere>>

\* nodeB, _, err := createNode(...); defer nodeB.Close()
CreateNodeB ==
    /\ pc = "createB"
    /\ \E ok \in BOOLEAN :
          IF ok THEN /\ pc' = "compileGlobs" /\ open' = {"A", "B"} /\ ret' = ret
                     /\ \E k \in NodeKinds : kind' = [kind EXCEPT !["B"] = k]
                ELSE Return("setup B failed") /\ open' = open /\ kind' = kind
    /\ UNCHANGED <<config, scanned, pool, results, cancelled, exitCode>>
    /\ UNCHANGED <<FollowSym, closeLog, targetsOpened, hashLog, elsewhere>>

\* fastGlobs, err := compileGlobs(fasts)
CompileGlobs ==
    /\ pc = "compileGlobs"
    /\ \E ok \in BOOLEAN :
          IF ok THEN pc' = "scanA" /\ ret' = ret
                ELSE Return("invalid fast globs")
    /\ UNCHANGED <<config, scanned, pool, open, results, cancelled, exitCode>>
    /\ UNCHANGED <<FollowSym, kind, closeLog, targetsOpened, hashLog, elsewhere>>

\* filesA, dirsA, err := nodeA.Scan(includes, excludes, FollowSym)
ScanA ==
    /\ pc = "scanA"
    /\ \E ok \in BOOLEAN :
          IF ok THEN /\ fsA' \in TreesA
                     /\ LET r == coreScan(fsA', includes, excludes, FollowSym)
                        IN  filesA' = r.files /\ dirsA' = r.dirs
                     /\ pc' = "scanB" /\ ret' = ret
                ELSE Return("scan A error") /\ UNCHANGED <<fsA, filesA, dirsA>>
    /\ UNCHANGED <<fsB, showAll, fastSet, globalLimit, includes, excludes,
                   workers, filesB, dirsB,
                   pool, open, results, cancelled, exitCode>>
    /\ UNCHANGED <<FollowSym, kind, closeLog, targetsOpened, hashLog, elsewhere>>

\* filesB, dirsB, err := nodeB.Scan(includes, excludes, FollowSym)
ScanB ==
    /\ pc = "scanB"
    /\ \E ok \in BOOLEAN :
          IF ok THEN /\ fsB' \in TreesB
                     /\ LET r == coreScan(fsB', includes, excludes, FollowSym)
                        IN  filesB' = r.files /\ dirsB' = r.dirs
                     /\ pc' = "reconcile" /\ ret' = ret
                ELSE Return("scan B error") /\ UNCHANGED <<fsB, filesB, dirsB>>
    /\ UNCHANGED <<fsA, showAll, fastSet, globalLimit, includes, excludes,
                   workers, filesA, dirsA,
                   pool, open, results, cancelled, exitCode>>
    /\ UNCHANGED <<FollowSym, kind, closeLog, targetsOpened, hashLog, elsewhere>>

\* the reconciliation, the filling and closing of jobCh, the start of the workers
Reconcile ==
    /\ pc = "reconcile"
    /\ LET r == reconcile(filesA, dirsA, filesB, dirsB, showAll)
       IN  /\ results' = r.results
           /\ jobCh' \in sortBySizeDesc(r.commonFiles, filesA)
    /\ dirsB' = SortStrings(dirsB)
    /\ wpc' = [w \in 1 .. workers |-> "select"]
    /\ wjob' = [w \in 1 .. workers |-> NoJob]
    /\ pc' = "wait"
    /\ UNCHANGED <<config, filesA, filesB, dirsA, resultCh, progress, failed,
                   open, cancelled, ret, exitCode>>
    /\ UNCHANGED <<FollowSym, kind, closeLog, targetsOpened, hashLog, elsewhere>>

\* fault variant: the sizes are not compared
sizesDiffer_never(fA, fB, p) == FALSE

\* stage 0: filesA[p] != filesB[p]
sizesDiffer(fA, fB, p) == fA[p] # fB[p]

\* fault variant: the comparison of the two digests is inverted
hashesDiffer_inverted(a, b) == a.err \/ b.err \/ a.hash = b.hash

\* fault variant: the errors of the two calls are ignored
hashesDiffer_ignoreErr(a, b) == a.hash # b.hash

\* stages 1 and 2: errA != nil || errB != nil || hashA != hashB
hashesDiffer(a, b) == a.err \/ b.err \/ a.hash # b.hash

\* fault variant: the progress signal is sent at the end of the job function
\* only, which the early returns do not reach
Finish_noDefer(w, p, modified) ==
    /\ resultCh' = IF modified THEN Append(resultCh, Item(p, "Modified", FALSE))
                   ELSE resultCh
    /\ progress' = IF modified /\ wpc[w] # "sha" THEN progress ELSE progress + 1
    /\ wpc' = [wpc EXCEPT ![w] = "select"]
    /\ wjob' = [wjob EXCEPT ![w] = NoJob]

\* fault variant: the Modified item is not sent
Finish_noResult(w, p, modified) ==
    /\ resultCh' = resultCh
    /\ progress' = progress + 1
    /\ wpc' = [wpc EXCEPT ![w] = "select"]
    /\ wjob' = [wjob EXCEPT ![w] = NoJob]

\* the end of the job function: deferred progress signal, back to the select
Finish(w, p, modified) ==
    /\ resultCh' = IF modified THEN Append(resultCh, Item(p, "Modified", FALSE))
                   ELSE resultCh
    /\ progress' = progress + 1
    /\ wpc' = [wpc EXCEPT ![w] = "select"]
    /\ wjob' = [wjob EXCEPT ![w] = NoJob]

\* fault variant: jobCh is left open
jobChClosed_never == FALSE

\* close(jobCh), before the workers start: a receive from the drained
\* channel returns !ok
jobChClosed == TRUE

\* select { case <-ctx.Done(): return; case path, ok := <-jobCh: ... } and stage 0
WorkerSelect(w) ==
    /\ pc = "wait"
    /\ wpc[w] = "select"
    /\ \/ /\ cancelled
          /\ wpc' = [wpc EXCEPT ![w] = "done"]
          /\ UNCHANGED <<jobCh, resultCh, progress, wjob>>
       \/ /\ jobCh = <<>> /\ jobChClosed
          /\ wpc' = [wpc EXCEPT ![w] = "done"]
          /\ UNCHANGED <<jobCh, resultCh, progress, wjob>>
       \/ /\ jobCh # <<>>
          /\ jobCh' = Tail(jobCh)
          /\ LET p == Head(jobCh)
             IN  IF sizesDiffer(filesA, filesB, p)
                 THEN Finish(w, p, TRUE)
                 ELSE /\ wpc' = [wpc EXCEPT ![w] = "md5"]
                      /\ wjob' = [wjob EXCEPT ![w] = p]
                      /\ UNCHANGED <<resultCh, progress>>
    /\ UNCHANGED <<config, scanned, failed, open, results, cancelled,
                   pc, ret, exitCode>>
    /\ UNCHANGED <<FollowSym, kind, closeLog, targetsOpened, hashLog, elsewhere>>

\* the symlinks at path p whose target a hash call opens
Opened(p) ==
    { <<"A", p>> : x \in { y \in { fsA[p] } : opensTarget(y, FollowSym) } }
        \cup { <<"B", p>> : x \in { y \in { fsB[p] } : opensTarget(y, FollowSym) } }

\* GetMD5 takes no limit
NoLimit == -1

\* a call of GetMD5 or GetSHA on the node of a side, and what it returned
Logged(method, side, p, limit, r) ==
    [call |-> method, side |-> side, path |-> p, limit |-> limit,
     err |-> r.err, hash |-> r.hash]

\* stage 1: nodeA.GetMD5, nodeB.GetMD5
WorkerMD5(w) ==
    /\ pc = "wait"
    /\ wpc[w] = "md5"
    /\ \E failsA, failsB \in BOOLEAN :
          LET p    == wjob[w]
              md5A == GetMD5(fsA, p, FollowSym, failsA)
              md5B == GetMD5(fsB, p, FollowSym, failsB)
          IN  /\ targetsOpened' = targetsOpened \cup Opened(p)
              /\ hashLog' = hashLog \cup { Logged("GetMD5", "A", p, NoLimit, md5A),
                                            Logged("GetMD5", "B", p, NoLimit, md5B) }
              /\ failed' = IF md5A.err \/ md5B.err THEN failed \cup {p} ELSE failed
              /\ IF hashesDiffer(md5A, md5B)
                 THEN Finish(w, p, TRUE)
                 ELSE /\ wpc' = [wpc EXCEPT ![w] = "sha"]
                      /\ UNCHANGED <<resultCh, progress, wjob>>
    /\ UNCHANGED <<config, scanned, jobCh, open, results, cancelled,
                   pc, ret, exitCode>>
    /\ UNCHANGED <<FollowSym, kind, closeLog, elsewhere>>

\* fault variant: the fast globs are not consulted
limitFor_globalOnly(p) == globalLimit

\* limit := args.GlobalLimit; a matching fast glob makes it args.FastLimit
limitFor(p) == IF p \in fastSet THEN FastLimit ELSE globalLimit

\* stage 2: nodeA.GetSHA, nodeB.GetSHA
WorkerSHA(w) ==
    /\ pc = "wait"
    /\ wpc[w] = "sha"
    /\ \E failsA, failsB \in BOOLEAN :
          LET p     == wjob[w]
              limit == limitFor(p)
              shaA  == GetSHA(fsA, p, limit, FollowSym, failsA)
              shaB  == GetSHA(fsB, p, limit, FollowSym, failsB)
          IN  /\ targetsOpened' = targetsOpened \cup Opened(p)
              /\ hashLog' = hashLog \cup { Logged("GetSHA", "A", p, limit, shaA),
                                            Logged("GetSHA", "B", p, limit, shaB) }
              /\ failed' = IF shaA.err \/ shaB.err THEN failed \cup {p} ELSE failed
              /\ Finish(w, p, hashesDiffer(shaA, shaB))
    /\ UNCHANGED <<config, scanned, jobCh, open, results, cancelled, pc, ret,
                   exitCode>>
    /\ UNCHANGED <<FollowSym, kind, closeLog, elsewhere>>

\* the context is cancelled by the caller
Cancel ==
    /\ pc = "wait"
    /\ \E w \in DOMAIN wpc : wpc[w] # "done"
    /\ ~cancelled
    /\ cancelled' = TRUE
    /\ UNCHANGED <<config, scanned, pool, open, results, pc, ret, exitCode>>
    /\ UNCHANGED <<FollowSym, kind, closeLog, targetsOpened, hashLog, elsewhere>>

\* fault variant: runMaster does not wait for the workers
wgWait_none == TRUE

\* wg.Wait() returns: every worker has called wg.Done()
wgWait == \A w \in DOMAIN wpc : wpc[w] = "done"

\* wg.Wait(); the results are collected and handed to printAndDetermineExit
Classify ==
    /\ pc = "wait"
    /\ wgWait
    /\ results' \in sortByPath(results \o resultCh)
    /\ resultCh' = <<>>
    /\ ret' = printAndDetermineExit(results \o resultCh)
    /\ pc' = "deferred"
    /\ UNCHANGED <<config, scanned, jobCh, progress, wpc, wjob, failed,
                   open, cancelled, exitCode>>
    /\ UNCHANGED <<FollowSym, kind, closeLog, targetsOpened, hashLog, elsewhere>>

\* LocalNode.Close does nothing; RemoteNode.Close closes the RPC client and
\* then waits for the subprocess
Close(side) ==
    IF kind[side] = "remote"
    THEN << <<side, "client.Close">>, <<side, "cmd.Wait">> >>
    ELSE << <<side, "Close">> >>

\* fault variant: only nodeB.Close() is deferred
deferred_onlyB(side) == IF side = "B" /\ side \in open THEN Close(side) ELSE <<>>

\* the deferred calls run last-in first-out: nodeB.Close(), then nodeA.Close()
deferred(side) == IF side \in open THEN Close(side) ELSE <<>>

\* the deferred nodeB.Close() and nodeA.Close()
CloseNodes ==
    /\ pc = "deferred"
    /\ closeLog' = closeLog \o deferred("B") \o deferred("A")
    /\ open' = {}
    /\ pc' = "returned"
    /\ UNCHANGED <<config, scanned, pool, results, cancelled, ret, exitCode>>
    /\ UNCHANGED <<FollowSym, kind, targetsOpened, hashLog, elsewhere>>

\* main: os.Exit with the code of the returned error
Exit ==
    /\ pc = "returned"
    /\ exitCode' = ExitCode(ret)
    /\ pc' = "exited"
    /\ UNCHANGED <<config, scanned, pool, open, results, cancelled, ret>>
    /\ UNCHANGED <<FollowSym, kind, closeLog, targetsOpened, hashLog, elsewhere>>

Next ==
    \/ ParseArgs
    \/ CreateNodeA
    \/ CreateNodeB
    \/ CompileGlobs
    \/ ScanA
    \/ ScanB
    \/ Reconcile
    \/ \E w \in DOMAIN wpc : WorkerSelect(w)
    \/ \E w \in DOMAIN wpc : WorkerMD5(w)
    \/ \E w \in DOMAIN wpc : WorkerSHA(w)
    \/ Cancel
    \/ Classify
    \/ CloseNodes
    \/ Exit

Spec == Init /\ [][Next]_vars

----------------------------------------------------------------------------
(* The classifier on its own: printAndDetermineExit on every diff-item list *)
(* of at most MaxLen items                                                  *)

DiffItems ==
    [Path : { <<"a">>, <<"f">> }, Type : { "Added", "Removed", "Modified" },
     IsDir : BOOLEAN]

RECURSIVE ListsUpTo(_)
ListsUpTo(n) ==
    IF n = 0 THEN { <<>> }
    ELSE ListsUpTo(n - 1)
         \cup { Append(l, d) : l \in { m \in ListsUpTo(n - 1) : Len(m) = n - 1 },
                               d \in DiffItems }

InitClassify ==
    /\ fsA = Unread /\ fsB = Unread
    /\ showAll = FALSE
    /\ includes = {} /\ excludes = {}
    /\ fastSet = {}
    /\ globalLimit = 0
    /\ workers = 0
    /\ FollowSym = FALSE
    /\ kind = [side \in { "A", "B" } |-> "local"]
    /\ closeLog = <<>>
    /\ targetsOpened = {}
    /\ hashLog = {}
    /\ IdleHasher
    /\ IdleRemote
    /\ IdleWalk
    /\ IdleMonitor
    /\ pc = "wait"
    /\ open = {"A", "B"}
    /\ filesA = EmptyMap /\ filesB = EmptyMap
    /\ dirsA = <<>> /\ dirsB = <<>>
    /\ results \in ListsUpTo(MaxLen)
    /\ jobCh = <<>> /\ resultCh = <<>>
    /\ progress = 0
    /\ wpc = <<>> /\ wjob = <<>>
    /\ cancelled = FALSE
    /\ failed = {}
    /\ ret = "none"
    /\ exitCode = -1

NextClassify == Classify \/ CloseNodes \/ Exit

SpecClassify == InitClassify /\ [][NextClassify]_vars

----------------------------------------------------------------------------
(* The run on trees with symlinks: "f" is absent, a regular file or a      *)
(* symlink, "a" is absent or a symlink; both settings of link-following     *)

\* two target strings of the same length
TargetX == [size |-> 4, bs |-> {}]
TargetY == [size |-> 4, bs |-> {3}]

\* what a target string resolves to on a side: nothing, or a regular file
Resolutions ==
    { NoTarget, [path |-> "x", content |-> Small],
      [path |-> "x", content |-> SmallMod] }

LinkTrees ==
    { fs \in [Paths -> { Absent, FileEnt(Small) }
                         \cup { LinkEnt(t, r) : t \in { TargetX, TargetY },
                                                r \in Resolutions }] :
        /\ fs[<<"a", "b">>] = Absent
        /\ fs[<<"a", "b", "c">>] = Absent
        /\ fs[<<"a">>] \in { Absent, LinkEnt(TargetX, [path |-> "x", content |-> Small]) } }

InitLinks ==
    /\ fsA \in LinkTrees /\ fsB \in LinkTrees
    /\ showAll = FALSE
    /\ includes = {} /\ excludes = {}
    /\ fastSet = {}
    /\ globalLimit = 0
    /\ workers = 1
    /\ FollowSym \in BOOLEAN
    /\ pc = "scanA"
    /\ open = { "A", "B" }
    /\ filesA = EmptyMap /\ filesB = EmptyMap
    /\ dirsA = <<>> /\ dirsB = <<>>
    /\ results = <<>>
    /\ jobCh = <<>> /\ resultCh = <<>>
    /\ progress = 0
    /\ wpc = <<>> /\ wjob = <<>>
    /\ cancelled = FALSE
    /\ failed = {}
    /\ ret = "none"
    /\ exitCode = -1
    /\ kind = [side \in { "A", "B" } |-> "local"]
    /\ closeLog = <<>>
    /\ targetsOpened = {}
    /\ hashLog = {}
    /\ IdleHasher
    /\ IdleRemote
    /\ IdleWalk
    /\ IdleMonitor

NextLinks ==
    \/ ScanA
    \/ ScanB
    \/ Reconcile
    \/ \E w \in DOMAIN wpc : WorkerSelect(w)
    \/ \E w \in DOMAIN wpc : WorkerMD5(w)
    \/ \E w \in DOMAIN wpc : WorkerSHA(w)
    \/ Cancel
    \/ Classify
    \/ CloseNodes
    \/ Exit

SpecLinks == InitLinks /\ [][NextLinks]_vars

----------------------------------------------------------------------------
(* The worker pool on its own: the run from the scans on, on trees that     *)
(* hold at most the two small files "a" and "f", with one worker or more    *)

PoolTrees ==
    { fs \in [Paths -> { Absent, FileEnt(Small), FileEnt(SmallMod) }] :
        fs[<<"a", "b">>] = Absent /\ fs[<<"a", "b", "c">>] = Absent }

InitPool ==
    /\ fsA \in { fs \in PoolTrees : \A q \in Paths : fs[q] # FileEnt(SmallMod) }
    /\ fsB \in PoolTrees
    /\ showAll = FALSE
    /\ includes = {} /\ excludes = {}
    /\ fastSet = {}
    /\ globalLimit = 0
    /\ workers \in 1 .. MaxWorkers
    /\ FollowSym = FALSE
    /\ pc = "scanA"
    /\ open = { "A", "B" }
    /\ filesA = EmptyMap /\ filesB = EmptyMap
    /\ dirsA = <<>> /\ dirsB = <<>>
    /\ results = <<>>
    /\ jobCh = <<>> /\ resultCh = <<>>
    /\ progress = 0
    /\ wpc = <<>> /\ wjob = <<>>
    /\ cancelled = FALSE
    /\ failed = {}
    /\ ret = "none"
    /\ exitCode = -1
    /\ kind = [side \in { "A", "B" } |-> "local"]
    /\ closeLog = <<>>
    /\ targetsOpened = {}
    /\ hashLog = {}
    /\ IdleHasher
    /\ IdleRemote
    /\ IdleWalk
    /\ IdleMonitor

SpecPool == InitPool /\ [][NextLinks]_vars

\* a worker goroutine
Worker(w) ==
    /\ w \in DOMAIN wpc
    /\ (WorkerSelect(w) \/ WorkerMD5(w) \/ WorkerSHA(w))

\* every goroutine that can run does run: the workers (a hash call returns)
\* and runMaster after wg.Wait()
SpecPoolFair ==
    /\ SpecPool
    /\ \A w \in 1 .. MaxWorkers : WF_vars(Worker(w))
    /\ WF_vars(Classify)

----------------------------------------------------------------------------
(* The run with include and exclude globs: from the scans on, on trees of   *)
(* directories and small files, with one worker                             *)

\* the globs of the model, each the set of the relative paths it matches:
\* the patterns "f", "a", "a/b" and "*c"
GlobF  == { <<"f">> }
GlobA  == { <<"a">> }
GlobAB == { <<"a", "b">> }
GlobC  == { <<"a", "b", "c">> }

IncludeLists == { {}, { GlobF }, { GlobC }, { GlobAB } }

ExcludeLists == { {}, { GlobA }, { GlobAB }, { GlobC } }

ScanTrees ==
    { fs \in Trees({ Small }, {}) : fs[<<"a">>].kind # "file" }

InitScan ==
    /\ fsA \in ScanTrees /\ fsB \in ScanTrees
    /\ showAll = FALSE
    /\ includes \in IncludeLists /\ excludes \in ExcludeLists
    /\ fastSet = {}
    /\ globalLimit = 0
    /\ workers = 1
    /\ FollowSym = FALSE
    /\ pc = "scanA"
    /\ open = { "A", "B" }
    /\ filesA = EmptyMap /\ filesB = EmptyMap
    /\ dirsA = <<>> /\ dirsB = <<>>
    /\ results = <<>>
    /\ jobCh = <<>> /\ resultCh = <<>>
    /\ progress = 0
    /\ wpc = <<>> /\ wjob = <<>>
    /\ cancelled = FALSE
    /\ failed = {}
    /\ ret = "none"
    /\ exitCode = -1
    /\ kind = [side \in { "A", "B" } |-> "local"]
    /\ closeLog = <<>>
    /\ targetsOpened = {}
    /\ hashLog = {}
    /\ IdleHasher
    /\ IdleRemote
    /\ IdleWalk
    /\ IdleMonitor

SpecScan == InitScan /\ [][NextLinks]_vars

----------------------------------------------------------------------------
(* The scanner on its own: coreScan, one call of walk at a time, on trees   *)
(* whose symlinks point at directories, at files, at each other or at      *)
(* nothing                                                                  *)

\* the places a symlink can point at: the root and the paths below it
Locs == Paths \cup { Root }

\* a symlink whose target string names the place t
SymTo(t) == [kind |-> "link", content |-> NoContent,
             target |-> [path |-> t, content |-> NoContent]]

WalkTrees ==
    { fs \in [Paths -> { Absent, DirEnt, FileEnt(Small) }
                         \cup { SymTo(t) : t \in Locs }] :
        /\ WellFormed(fs)
        /\ fs[<<"a", "b", "c">>].kind # "dir"
        /\ fs[<<"f">>].kind # "dir" }

\* the result of a resolution that fails
ENOENT == << "" >>

\* filepath.EvalSymlinks: the place p with every symlink resolved; it fails
\* on a name that does not exist and on a chain of links that never ends
RECURSIVE EvalSymlinks(_, _, _)
EvalSymlinks(fs, p, seen) ==
    IF p = Root THEN Root
    ELSE IF fs[p].kind = "none" THEN ENOENT
    ELSE IF fs[p].kind # "link" THEN p
    ELSE IF p \in seen THEN ENOENT
    ELSE EvalSymlinks(fs, fs[p].target.path, seen \cup { p })

\* os.Lstat, os.Stat: directory or not, and the size
InfoOf(fs, p) ==
    IF p = Root THEN [IsDir |-> TRUE, Size |-> 0]
    ELSE [IsDir |-> fs[p].kind = "dir", Size |-> fs[p].content.size]

\* the call walk(currPath): curr is currPath relative to the root, at is the
\* place of the entry that currPath names
Frame(curr, at) == [curr |-> curr, at |-> at]

\* walk(filepath.Join(currPath, e.Name())) for the entries of the directory
\* at place d, in the order of os.ReadDir
RECURSIVE Calls(_, _)
Calls(curr, entries) ==
    IF entries = <<>> THEN <<>>
    ELSE << Frame(Append(curr, Head(entries)[Len(Head(entries))]), Head(entries)) >>
            \o Calls(curr, Tail(entries))

\* fault variant: no resolved path ever counts as visited
alreadyVisited_never(realPath, visited) == FALSE

\* visitedPaths[realPath]
alreadyVisited(realPath, visited) == realPath \in visited

\* fault variant: a directory is recorded only when the include list is
\* empty or one of its globs matches the directory
recordsDir_included(curr, incGlobs) ==
    curr # Root /\ (incGlobs = {} \/ AnyMatch(incGlobs, curr))

\* if slashRel != "" { dirs = append(dirs, slashRel) }
recordsDir(curr, incGlobs) == curr # Root

InitWalk ==
    /\ fsA \in WalkTrees /\ fsB = Unread
    /\ showAll = FALSE
    /\ includes \in IncludeLists /\ excludes \in ExcludeLists
    /\ fastSet = {}
    /\ globalLimit = 0
    /\ workers = 0
    /\ FollowSym \in BOOLEAN
    /\ pc = "walk"
    /\ Idle
    /\ IdleHasher
    /\ IdleRemote
    /\ stack = << Frame(Root, Root) >>
    /\ visitedPaths = {}
    /\ IdleMonitor

\* the variables that walk leaves alone
outsideWalk == <<config, filesB, dirsB, pool, open, results, cancelled, ret,
                 exitCode, FollowSym, kind, closeLog, targetsOpened, hashLog,
                 hEntryA, hEntryB, hLimit, hDigests, remote, monitor>>

\* one call of walk, up to its recursive calls
Walk ==
    /\ pc = "walk"
    /\ stack # <<>>
    /\ Len(Head(stack).curr) <= MaxDepth
    /\ LET curr     == Head(stack).curr
           at       == Head(stack).at
           rest     == Tail(stack)
           lstatErr == at # Root /\ fsA[at].kind = "none"
           isSym    == at # Root /\ fsA[at].kind = "link"
           followed == isSym /\ FollowSym
           realPath == IF followed THEN EvalSymlinks(fsA, at, {}) ELSE at
           info     == InfoOf(fsA, realPath)
       IN  IF lstatErr \/ realPath = ENOENT
           THEN stack' = rest /\ UNCHANGED <<visitedPaths, filesA, dirsA>>
           ELSE IF followed /\ alreadyVisited(realPath, visitedPaths)
           THEN stack' = rest /\ UNCHANGED <<visitedPaths, filesA, dirsA>>
           ELSE /\ visitedPaths' = IF followed THEN visitedPaths \cup { realPath }
                                   ELSE visitedPaths
                /\ IF curr # Root /\ AnyMatch(excludes, curr)
                   THEN stack' = rest /\ UNCHANGED <<filesA, dirsA>>
                   ELSE IF info.IsDir
                   THEN /\ dirsA' = IF recordsDir(curr, includes)
                                     THEN Append(dirsA, curr) ELSE dirsA
                        /\ stack' = Calls(curr, ReadDir(fsA, realPath)) \o rest
                        /\ filesA' = filesA
                   ELSE IF curr # Root /\ includes # {} /\ ~AnyMatch(includes, curr)
                   THEN stack' = rest /\ UNCHANGED <<filesA, dirsA>>
                   ELSE /\ filesA' = IF curr # Root THEN MapSet(filesA, curr, info.Size)
                                     ELSE filesA
                        /\ stack' = rest
                        /\ dirsA' = dirsA
    /\ pc' = pc
    /\ UNCHANGED outsideWalk

\* err = walk(rootDir); return files, dirs, err
WalkReturn ==
    /\ pc = "walk"
    /\ stack = <<>>
    /\ pc' = "scanned"
    /\ UNCHANGED <<stack, visitedPaths, filesA, dirsA, outsideWalk>>

NextWalk == Walk \/ WalkReturn

SpecWalk == InitWalk /\ [][NextWalk]_vars

\* a call of walk that can be made is made
SpecWalkFair == SpecWalk /\ WF_vars(NextWalk)

----------------------------------------------------------------------------
(* The hasher on its own: computeSparseHash on two regular files of at most *)
(* MaxSize bytes, or on two large files, with a limit of at most MaxLimit   *)
(* and with limit 0; coreMD5 on the same two files                          *)

\* the second file is the first one, or the first one with one byte changed
FlipAt(c, k) ==
    [c EXCEPT !.bs = IF k \in c.bs THEN c.bs \ {k} ELSE c.bs \cup {k}]

InitHash ==
    /\ fsA = Unread /\ fsB = Unread
    /\ showAll = FALSE
    /\ includes = {} /\ excludes = {}
    /\ fastSet = {}
    /\ globalLimit = 0
    /\ workers = 0
    /\ FollowSym = FALSE
    /\ pc = "hash"
    /\ Idle
    /\ IdleRemote
    /\ IdleWalk
    /\ IdleMonitor
    /\ \/ \E size \in 1 .. MaxSize :
             \E bs \in SUBSET (0 .. size - 1) :
                /\ hEntryA = FileEnt([size |-> size, bs |-> bs])
                /\ hEntryB \in { hEntryA }
                       \cup { FileEnt(FlipAt(hEntryA.content, k)) : k \in 0 .. size - 1 }
       \/ /\ hEntryA \in { FileEnt(c) : c \in LargeContents }
          /\ hEntryB \in { FileEnt(c) : c \in LargeContents }
    /\ hLimit \in 0 .. MaxLimit
    /\ hDigests = EmptyMap

run == <<config, scanned, pool, open, results, cancelled, pc, ret, exitCode,
         FollowSym, kind, closeLog, targetsOpened,
         hashLog>>

\* both files hashed with the given limit
HashSparse ==
    /\ pc = "hash"
    /\ "sparse" \notin DOMAIN hDigests
    /\ hDigests' = MapSet(hDigests, "sparse",
                        [a |-> computeSparseHash(hEntryA, "sha256", hLimit, FALSE),
                         b |-> computeSparseHash(hEntryB, "sha256", hLimit, FALSE)])
    /\ UNCHANGED <<run, remote, hEntryA, hEntryB, hLimit, stack, visitedPaths,
                   monitor>>

\* both files hashed with limit 0
HashFull ==
    /\ pc = "hash"
    /\ "full" \notin DOMAIN hDigests
    /\ hDigests' = MapSet(hDigests, "full",
                        [a |-> computeSparseHash(hEntryA, "sha256", 0, FALSE),
                         b |-> computeSparseHash(hEntryB, "sha256", 0, FALSE)])
    /\ UNCHANGED <<run, remote, hEntryA, hEntryB, hLimit, stack, visitedPaths,
                   monitor>>

\* a root that holds the entry e at "f" and nothing else
Holding(e) == [q \in Paths |-> IF q = <<"f">> THEN e ELSE Absent]

\* coreMD5 on both files
HashQuick ==
    /\ pc = "hash"
    /\ "quick" \notin DOMAIN hDigests
    /\ hDigests' = MapSet(hDigests, "quick",
                        [a |-> coreMD5(Holding(hEntryA), <<"f">>, FALSE),
                         b |-> coreMD5(Holding(hEntryB), <<"f">>, FALSE)])
    /\ UNCHANGED <<run, remote, hEntryA, hEntryB, hLimit, stack, visitedPaths,
                   monitor>>

\* a read of n bytes at offset off
Region(off, n) == [off |-> off, n |-> n]

\* fault variant: the last chunk has the size of the other two
sparseReads_equalChunks(fileSize, limit) ==
    LET chunkSize == limit \div 3
    IN  << Region(0, chunkSize),
           Region((fileSize \div 2) - (chunkSize \div 2), chunkSize),
           Region(fileSize - chunkSize, chunkSize) >>

\* the reads of computeSparseHash on a file larger than the limit: CopyN,
\* Seek and CopyN, Seek and CopyN
sparseReads(fileSize, limit) ==
    LET chunkSize     == limit \div 3
        lastChunkSize == limit - (chunkSize * 2)
    IN  << Region(0, chunkSize),
           Region((fileSize \div 2) - (chunkSize \div 2), chunkSize),
           Region(fileSize - lastChunkSize, lastChunkSize) >>

\* the sparse branch taken on the first file: the reads it makes
HashReads ==
    /\ pc = "hash"
    /\ "reads" \notin DOMAIN hDigests
    /\ hLimit > 0 /\ hEntryA.content.size > hLimit
    /\ hDigests' = MapSet(hDigests, "reads",
                        sparseReads(hEntryA.content.size, hLimit))
    /\ UNCHANGED <<run, remote, hEntryA, hEntryB, hLimit, stack, visitedPaths,
                   monitor>>

NextHash == HashSparse \/ HashFull \/ HashQuick \/ HashReads

SpecHash == InitHash /\ [][NextHash]_vars

----------------------------------------------------------------------------
(* The stderr monitor of NewRemoteNode on its own: the goroutine that reads *)
(* the diagnostic stream of the subprocess byte by byte and answers the     *)
(* password prompt. The stream is made of the two bytes "p" and "q", the    *)
(* prompt marker is "pqp".                                                  *)

StderrBytes == { "p", "q" }

promptMarker == << "p", "q", "p" >>

\* readPassword(): the password typed, or "" when the terminal cannot be read
Passwords == { "", "secret" }

\* fault variant: the window is never shortened
slide_noTrim(w, b) == Append(w, b)

\* window = append(window, b), shortened from the front to len(markerBytes)
slide(w, b) ==
    IF Len(Append(w, b)) > Len(promptMarker) THEN Tail(Append(w, b))
    ELSE Append(w, b)

InitMonitor ==
    /\ fsA = Unread /\ fsB = Unread
    /\ showAll = FALSE
    /\ includes = {} /\ excludes = {}
    /\ fastSet = {}
    /\ globalLimit = 0
    /\ workers = 0
    /\ FollowSym = FALSE
    /\ pc = "monitor"
    /\ Idle
    /\ IdleHasher
    /\ IdleRemote
    /\ IdleWalk
    /\ mon = "reading" /\ window = <<>> /\ stderrBuf = <<>> /\ fired = {}

\* the variables that the monitor leaves alone
outsideMonitor == <<run, hEntryA, hEntryB, hLimit, hDigests, stack, visitedPaths,
                    npc, sel, nret, rdr, agent, printed, nread, readyCh, served,
                    call, client, waited, cancelledAt>>

\* one iteration that reads a byte: n > 0, and err is nil or not
MonitorRead(b, eof) ==
    /\ mon = "reading"
    /\ Len(stderrBuf) < MaxBytes
    /\ stderrBuf' = Append(stderrBuf, b)
    /\ IF slide(window, b) = promptMarker
       THEN /\ \E pass \in Passwords : stdin' = Append(stdin, << pass, "\n" >>)
            /\ window' = <<>>
            /\ fired' = fired \cup { Len(stderrBuf') }
       ELSE /\ window' = slide(window, b)
            /\ UNCHANGED <<stdin, fired>>
    /\ mon' = IF eof THEN "done" ELSE "reading"
    /\ UNCHANGED outsideMonitor

\* the iteration that reads nothing: n = 0 and err != nil
MonitorEnd ==
    /\ mon = "reading"
    /\ mon' = "done"
    /\ UNCHANGED <<window, stderrBuf, fired, stdin, outsideMonitor>>

NextMonitor ==
    \/ \E b \in StderrBytes, eof \in BOOLEAN : MonitorRead(b, eof)
    \/ MonitorEnd

SpecMonitor == InitMonitor /\ [][NextMonitor]_vars

----------------------------------------------------------------------------
(* The remote node: NewRemoteNode and RemoteNode on the master's side, the   *)
(* ssh subprocess with runAgent and RpcAgent behind it. The tree behind the  *)
(* remote root is fsA. A line of the subprocess's output is a string with    *)
(* its line end; the RPC stream that follows the handshake is the list of    *)
(* requests written (stdin) and the reply of each call.                      *)

READY_MSG == "__DIRDIFF_AGENT_READY__"

\* fmt.Println(READY_MSG)
ReadyLine == "__DIRDIFF_AGENT_READY__\n"

\* what else arrives on the subprocess's output before the agent runs
NoiseLines == { "Last login: today\n", "\n", "echo __DIRDIFF_AGENT_READY__\n" }

\* strings.TrimSpace on the lines of the model
TrimSpace(line) ==
    CASE line = ReadyLine                       -> "__DIRDIFF_AGENT_READY__"
      [] line = "Last login: today\n"            -> "Last login: today"
      [] line = "\n"                             -> ""
      [] line = "echo __DIRDIFF_AGENT_READY__\n" -> "echo __DIRDIFF_AGENT_READY__"
      [] OTHER                                   -> line

\* fault variant: every line ends the wait as the ready message does
readyWait_anyLine(line, eof) ==
    IF eof THEN "err" ELSE "nil"

\* fault variant: a line that is not the ready message ends the wait with an error
readyWait_strict(line, eof) ==
    IF eof THEN "err"
    ELSE IF TrimSpace(line) = READY_MSG THEN "nil"
    ELSE "err"

\* one round of the reader goroutine: what it sends on readyCh, "ignore" when
\* it sends nothing and reads on
readyWait(line, eof) ==
    IF eof THEN "err"
    ELSE IF TrimSpace(line) = READY_MSG THEN "nil"
    ELSE "ignore"

\* fault variant: the select waits for readyCh alone
selectCases_readyOnly == { "ready" }

\* the cases of the select of NewRemoteNode
selectCases == { "ready", "ctx" }

\* the cases of the select that can proceed
readyCases ==
    { c \in selectCases : \/ c = "ready" /\ readyCh # <<>>
                          \/ c = "ctx" /\ cancelled }

----------------------------------------------------------------------------
\* err.Error() of an error of coreScan, coreMD5 or coreSHA
ErrorText == "no such file or directory"

HashOut(err, hash) ==
    [err |-> err, hash |-> hash, files |-> EmptyMap, dirs |-> <<>>]

ScanOut(err, files, dirs) ==
    [err |-> err, hash |-> NoHash, files |-> files, dirs |-> dirs]

\* LocalNode.Scan: coreScan; globErr is a pattern that compileGlobs rejects
LocalNode_Scan(fs, followSym, globErr) ==
    IF globErr THEN ScanOut(TRUE, EmptyMap, <<>>)
    ELSE LET r == coreScan(fs, {}, {}, followSym)
         IN  ScanOut(FALSE, r.files, r.dirs)

\* LocalNode.GetMD5, LocalNode.GetSHA: coreMD5, coreSHA; ioErr is a read
\* that fails
LocalNode_GetMD5(fs, relPath, followSym, ioErr) ==
    LET r == GetMD5(fs, relPath, followSym, ioErr) IN HashOut(r.err, r.hash)

LocalNode_GetSHA(fs, relPath, limit, followSym, ioErr) ==
    LET r == GetSHA(fs, relPath, limit, followSym, ioErr) IN HashOut(r.err, r.hash)

\* RpcAgent.Scan: the reply made of coreScan's results
ScanReplyOf(r) ==
    [Files |-> r.files, Dirs |-> r.dirs,
     Error |-> IF r.err THEN ErrorText ELSE ""]

\* fault variant: the agent leaves reply.Hash empty
HashReplyOf_noHash(r) ==
    [Hash |-> NoHash, Error |-> IF r.err THEN ErrorText ELSE ""]

\* RpcAgent.GetMD5, RpcAgent.GetSHA: the reply made of the core function's results
HashReplyOf(r) ==
    [Hash |-> r.hash, Error |-> IF r.err THEN ErrorText ELSE ""]

\* reply := &ScanReply{}, reply := &HashReply{}
ZeroScanReply == [Files |-> EmptyMap, Dirs |-> <<>>, Error |-> ""]

ZeroHashReply == [Hash |-> NoHash, Error |-> ""]

\* RemoteNode.Scan after client.Call has returned callErr
RemoteNode_Scan(reply, callErr) ==
    IF reply.Error # "" THEN ScanOut(TRUE, EmptyMap, <<>>)
    ELSE ScanOut(callErr, reply.Files, reply.Dirs)

\* fault variant: reply.Error is not looked at
RemoteNode_Hash_ignoreReplyError(reply, callErr) ==
    HashOut(callErr, reply.Hash)

\* RemoteNode.GetMD5, RemoteNode.GetSHA after client.Call has returned callErr
RemoteNode_Hash(reply, callErr) ==
    IF reply.Error # "" THEN HashOut(TRUE, NoHash)
    ELSE HashOut(callErr, reply.Hash)

Methods == { "Scan", "GetMD5", "GetSHA" }

\* what the Local variant returns for the call: the agent runs the same function
LocalResult(m, relPath, envErr) ==
    CASE m = "Scan"   -> LocalNode_Scan(fsA, FollowSym, envErr)
      [] m = "GetMD5" -> LocalNode_GetMD5(fsA, relPath, FollowSym, envErr)
      [] m = "GetSHA" -> LocalNode_GetSHA(fsA, relPath, 0, FollowSym, envErr)

\* the reply the agent writes for the call
AgentReply(c) ==
    CASE c.m = "Ping" -> [Status |-> "OK"]
      [] c.m = "Scan" -> ScanReplyOf(c.local)
      [] OTHER        -> HashReplyOf(c.local)

\* what the RemoteNode method returns
RemoteResult(m, reply, callErr) ==
    IF m = "Scan" THEN RemoteNode_Scan(reply, callErr)
    ELSE RemoteNode_Hash(reply, callErr)

ZeroReply(m) == IF m = "Scan" THEN ZeroScanReply ELSE ZeroHashReply

NoOut == HashOut(FALSE, NoHash)

NewCall(m, relPath, local) ==
    [m |-> m, relPath |-> relPath, stage |-> "sent", local |-> local,
     reply |-> ZeroReply(m), callErr |-> FALSE, result |-> NoOut]

----------------------------------------------------------------------------
RemotePaths == { <<"f">>, <<"a">> }

\* the trees behind the remote root: "f" is absent or a small regular file,
\* "a" is absent or a directory
RemoteTrees ==
    { fs \in [Paths -> {Absent, DirEnt, FileEnt(Small), FileEnt(SmallMod)}] :
        /\ fs[<<"a", "b">>] = Absent /\ fs[<<"a", "b", "c">>] = Absent
        /\ fs[<<"a">>] \in {Absent, DirEnt}
        /\ fs[<<"f">>] \in {Absent, FileEnt(Small), FileEnt(SmallMod)} }

InitRemote ==
    /\ fsA \in RemoteTrees /\ fsB = Unread
    /\ showAll = FALSE /\ fastSet = {} /\ globalLimit = 0 /\ workers = 1
    /\ includes = {} /\ excludes = {}
    /\ pc = "createA"
    /\ open = {}
    /\ filesA = EmptyMap /\ filesB = EmptyMap
    /\ dirsA = <<>> /\ dirsB = <<>>
    /\ results = <<>>
    /\ jobCh = <<>> /\ resultCh = <<>>
    /\ progress = 0
    /\ wpc = <<>> /\ wjob = <<>>
    /\ cancelled = FALSE
    /\ failed = {}
    /\ ret = "none"
    /\ exitCode = -1
    /\ FollowSym = FALSE
    /\ kind = [side \in { "A", "B" } |-> IF side = "A" THEN "remote" ELSE "none"]
    /\ closeLog = <<>>
    /\ targetsOpened = {}
    /\ hashLog = {}
    /\ IdleHasher
    /\ IdleWalk
    /\ IdleMonitor
    /\ npc = "start" /\ sel = "none" /\ nret = "none"
    /\ rdr = "none" /\ agent = "none"
    /\ printed = <<>> /\ nread = 0
    /\ readyCh = <<>>
    /\ stdin = <<>> /\ served = 0
    /\ call = NoCall
    /\ client = "none"
    /\ waited = FALSE
    /\ cancelledAt = "none"

\* the variables of the run that the remote node leaves alone
master == <<config, scanned, pool, open, results, pc, ret, exitCode, FollowSym,
            kind, targetsOpened, hashLog, hEntryA, hEntryB, hLimit, hDigests,
            stack, visitedPaths, monitor>>

Running == agent \in { "starting", "serving" }

\* cmd.Start(), then the two goroutines
StartCmd ==
    /\ npc = "start"
    /\ \E ok \in BOOLEAN :
          IF ok THEN /\ agent' = "starting" /\ rdr' = "reading"
                     /\ npc' = "select" /\ nret' = nret
                ELSE /\ npc' = "returned" /\ nret' = "failed to start ssh command"
                     /\ UNCHANGED <<agent, rdr>>
    /\ UNCHANGED <<master, cancelled, closeLog, sel, printed, nread, readyCh,
                   stdin, served, call, client, waited, cancelledAt>>

\* ssh, the login shell or sudo writes a line to the output
PrintNoise ==
    /\ agent = "starting"
    /\ Len(printed) < MaxNoise
    /\ \E line \in NoiseLines : printed' = Append(printed, line)
    /\ UNCHANGED <<master, cancelled, closeLog, npc, sel, nret, rdr, agent, nread,
                   readyCh, stdin, served, call, client, waited, cancelledAt>>

\* runAgent: fmt.Println(READY_MSG), then rpc.ServeConn
PrintReady ==
    /\ agent = "starting"
    /\ printed' = Append(printed, ReadyLine)
    /\ agent' = "serving"
    /\ UNCHANGED <<master, cancelled, closeLog, npc, sel, nret, rdr, nread,
                   readyCh, stdin, served, call, client, waited, cancelledAt>>

\* the subprocess ends: the connection fails, ssh is killed when ctx is
\* cancelled (exec.CommandContext), or ServeConn returns when its input is closed
AgentExit ==
    /\ Running
    /\ agent' = "exited"
    /\ UNCHANGED <<master, cancelled, closeLog, npc, sel, nret, rdr, printed,
                   nread, readyCh, stdin, served, call, client, waited,
                   cancelledAt>>

\* the send on readyCh: a select that is parked on the channel takes the value
\* and is woken with that case
Send(v) ==
    IF v = "ignore" THEN UNCHANGED <<readyCh, rdr, npc, sel>>
    ELSE /\ readyCh' = Append(readyCh, v)
         /\ rdr' = "done"
         /\ IF npc = "parked" /\ "ready" \in selectCases
            THEN npc' = "woken" /\ sel' = "ready"
            ELSE UNCHANGED <<npc, sel>>

\* the reader goroutine: one ReadString('\n')
ReadLine ==
    /\ rdr = "reading"
    /\ IF nread < Len(printed)
       THEN /\ nread' = nread + 1
            /\ Send(readyWait(printed[nread + 1], FALSE))
       ELSE /\ agent = "exited"
            /\ nread' = nread
            /\ Send(readyWait("", TRUE))
    /\ UNCHANGED <<master, cancelled, closeLog, nret, agent, printed, stdin,
                   served, call, client, waited, cancelledAt>>

\* NewRemoteNode reaches its select: a case that can proceed is taken (any of
\* them when there are several), otherwise the goroutine parks
Select ==
    /\ npc = "select"
    /\ IF readyCases = {} THEN npc' = "parked" /\ sel' = sel
       ELSE npc' = "woken" /\ sel' \in readyCases
    /\ UNCHANGED <<master, cancelled, closeLog, nret, rdr, agent, printed, nread,
                   readyCh, stdin, served, call, client, waited, cancelledAt>>

\* ctx is cancelled: a select parked on ctx.Done() is woken with that case
CancelRemote ==
    /\ ~cancelled
    /\ npc \notin { "returned", "closed" }
    /\ cancelled' = TRUE
    /\ cancelledAt' = npc
    /\ IF npc = "parked" /\ "ctx" \in selectCases
       THEN npc' = "woken" /\ sel' = "ctx"
       ELSE UNCHANGED <<npc, sel>>
    /\ UNCHANGED <<master, closeLog, nret, rdr, agent, printed, nread, readyCh,
                   stdin, served, call, client, waited>>

\* the body of the case the select took
AfterSelect ==
    /\ npc = "woken"
    /\ IF sel = "ctx"
       THEN /\ npc' = "returned" /\ nret' = "ctx.Err"
            /\ UNCHANGED <<readyCh, waited, agent>>
       ELSE /\ readyCh' = Tail(readyCh)
            /\ agent' = agent
            /\ IF Head(readyCh) = "err"
               THEN /\ agent = "exited"       \* cmd.Wait() returns
                    /\ waited' = TRUE
                    /\ npc' = "returned"
                    /\ nret' = "disconnected before agent ready"
               ELSE /\ npc' = "client" /\ nret' = nret
                    /\ waited' = waited
    /\ UNCHANGED <<master, cancelled, closeLog, sel, rdr, printed, nread, stdin,
                   served, call, client, cancelledAt>>

\* rpc.NewClient(conn), and client.Call("RpcAgent.Ping") writes its request
NewClient ==
    /\ npc = "client"
    /\ client' = "open"
    /\ stdin' = Append(stdin, "Ping")
    /\ call' = NewCall("Ping", Root, NoOut)
    /\ npc' = "ping"
    /\ UNCHANGED <<master, cancelled, closeLog, sel, nret, rdr, agent, printed,
                   nread, readyCh, served, waited, cancelledAt>>

\* rpc.ServeConn serves the next request
AgentServe ==
    /\ agent = "serving"
    /\ served < Len(stdin)
    /\ call.stage = "sent"
    /\ served' = served + 1
    /\ call' = [call EXCEPT !.stage = "replied", !.reply = AgentReply(call)]
    /\ UNCHANGED <<master, cancelled, closeLog, npc, sel, nret, rdr, agent,
                   printed, nread, readyCh, stdin, client, waited, cancelledAt>>

\* client.Call returns: with the reply, or with an error when the subprocess
\* has ended without one
CallDone(callErr) ==
    /\ callErr = (call.stage = "sent")
    /\ call.stage = "sent" => agent = "exited"

\* the Ping has returned
PingDone ==
    /\ npc = "ping"
    /\ \E callErr \in BOOLEAN :
          /\ CallDone(callErr)
          /\ call' = [call EXCEPT !.stage = "done", !.callErr = callErr]
          /\ IF callErr
             THEN /\ client' = "closed"
                  /\ npc' = "returned" /\ nret' = "remote agent RPC ping failed"
             ELSE /\ npc' = "ready" /\ nret' = "nil"
                  /\ client' = client
    /\ UNCHANGED <<master, cancelled, closeLog, sel, rdr, agent, printed, nread,
                   readyCh, stdin, served, waited, cancelledAt>>

\* RemoteNode.Scan, GetMD5 or GetSHA: client.Call writes the request
Request ==
    /\ npc = "ready"
    /\ call.stage = "done"
    /\ Len(stdin) <= MaxCalls
    /\ \E m \in Methods : \E relPath \in RemotePaths : \E envErr \in BOOLEAN :
          /\ m = "Scan" => relPath = <<"f">>
          /\ stdin' = Append(stdin, m)
          /\ call' = NewCall(m, relPath, LocalResult(m, relPath, envErr))
    /\ UNCHANGED <<master, cancelled, closeLog, npc, sel, nret, rdr, agent,
                   printed, nread, readyCh, served, client, waited, cancelledAt>>

\* the method returns to its caller
Response ==
    /\ npc = "ready"
    /\ call.stage \in { "sent", "replied" }
    /\ \E callErr \in BOOLEAN :
          /\ CallDone(callErr)
          /\ call' = [call EXCEPT !.stage = "done", !.callErr = callErr,
                                  !.result = RemoteResult(call.m, call.reply, callErr)]
    /\ UNCHANGED <<master, cancelled, closeLog, npc, sel, nret, rdr, agent,
                   printed, nread, readyCh, stdin, served, client, waited,
                   cancelledAt>>

\* RemoteNode.Close: n.client.Close(), then n.cmd.Wait()
CloseRemote ==
    /\ npc = "ready"
    /\ call.stage = "done"
    /\ client' = "closed"
    /\ agent' = "exited"
    /\ waited' = TRUE
    /\ closeLog' = closeLog \o Close("A")
    /\ npc' = "closed"
    /\ UNCHANGED <<master, cancelled, sel, nret, rdr, printed, nread, readyCh,
                   stdin, served, call, cancelledAt>>

NextRemote ==
    \/ StartCmd
    \/ PrintNoise
    \/ PrintReady
    \/ AgentExit
    \/ ReadLine
    \/ Select
    \/ CancelRemote
    \/ AfterSelect
    \/ NewClient
    \/ AgentServe
    \/ PingDone
    \/ Request
    \/ Response
    \/ CloseRemote

SpecRemote == InitRemote /\ [][NextRemote]_vars

\* NewRemoteNode runs on once its select has taken a case; nothing is assumed
\* of the subprocess or of the reader goroutine
SpecRemoteFair == SpecRemote /\ WF_vars(AfterSelect)

----------------------------------------------------------------------------
(* Properties *)

Verdicts == { "nil", "ErrDiffsFound", "ErrASubsetB", "ErrBSubsetA" }

\* printAndDetermineExit has returned its verdict
Classified == ret \in Verdicts

\* the reconciliation has produced the Added/Removed items
Reconciled == pc = "wait" \/ Classified

SharedFiles == { p \in Paths : fsA[p].kind = "file" /\ fsB[p].kind = "file" }

ContentDiffers(p) == fsA[p].content # fsB[p].content

Has(type) == \E i \in DOMAIN results : results[i].Type = type

OnlyType(type) == \A i \in DOMAIN results : results[i].Type = type

Reported(p, type, isDir) ==
    \E i \in DOMAIN results : results[i] = Item(p, type, isDir)

F == <<"f">>

FullyHashed(p) == limitFor(p) <= 0 \/ fsA[p].content.size <= limitFor(p)

Present(fs, p) == fs[p].kind \in { "file", "dir", "link" }

\* every path of small is in big, with the same kind
Contains(big, small) ==
    \A p \in Paths : Present(small, p) => big[p].kind = small[p].kind

Extra(big, small) ==
    \E p \in Paths : Present(big, p) /\ ~Present(small, p)

NoSharedDiff == \A p \in SharedFiles : ~ContentDiffers(p)

C6_OnlyOneSide ==
    (Classified /\ ~Has("Modified")) =>
        /\ (Has("Added") /\ ~Has("Removed")) => ret = "ErrASubsetB"
        /\ (Has("Removed") /\ ~Has("Added")) => ret = "ErrBSubsetA"

\* C6 witness: a list of added directories only is classified ErrASubsetB.
C6_Witness ==
    /\ Classified
    /\ results # <<>>
    /\ \A i \in DOMAIN results : results[i].Type = "Added" /\ results[i].IsDir
    /\ ret = "ErrASubsetB"

\* C7: the process exits with 0 for Identical, 1 for ErrDiffsFound, 3 for
\* ErrASubsetB, 4 for ErrBSubsetA, 2 for every other error, and with no other
\* code.
C7_ExitCodes ==
    pc = "exited" =>
        /\ ret = "nil" => exitCode = 0
        /\ ret = "ErrDiffsFound" => exitCode = 1
        /\ ret = "ErrASubsetB" => exitCode = 3
        /\ ret = "ErrBSubsetA" => exitCode = 4
        /\ ret \notin Verdicts => exitCode = 2
        /\ exitCode \in { 0, 1, 2, 3, 4 }

\* C7 witness: a run whose list has a Removed item returned ErrBSubsetA and
\* exited with code 4.
C7_Witness ==
    pc = "exited" /\ ret = "ErrBSubsetA" /\ exitCode = 4 /\ Has("Removed")

ProperAncestors(p) == { SubSeq(p, 1, n) : n \in 1 .. (Len(p) - 1) }

UniqueDirs(dX, dY) == Range(dX) \ Range(dY)

UniqueFiles(fX, fY) == DOMAIN fX \ DOMAIN fY

ListedIffTopmost(p, type, isDir, uniqueDirs) ==
    Reported(p, type, isDir)
        <=> (showAll \/ ProperAncestors(p) \cap uniqueDirs = {})

\* C8: a directory or file unique to one side is reported (Added for B, Removed
\* for A) exactly when show-all is enabled or none of its proper ancestors is a
\* directory unique to that side; with show-all disabled no reported
\* Added/Removed item has a reported Added/Removed proper ancestor.
C8_Pruning ==
    Reconciled =>
        /\ \A d \in UniqueDirs(dirsB, dirsA) :
              ListedIffTopmost(d, "Added", TRUE, UniqueDirs(dirsB, dirsA))
        /\ \A d \in UniqueDirs(dirsA, dirsB) :
              ListedIffTopmost(d, "Removed", TRUE, UniqueDirs(dirsA, dirsB))
        /\ \A p \in UniqueFiles(filesB, filesA) :
              ListedIffTopmost(p, "Added", FALSE, UniqueDirs(dirsB, dirsA))
        /\ \A p \in UniqueFiles(filesA, filesB) :
              ListedIffTopmost(p, "Removed", FALSE, UniqueDirs(dirsA, dirsB))
        /\ ~showAll =>
              \A i, j \in DOMAIN results :
                  (results[i].Type # "Modified" /\ results[j].Type # "Modified")
                      => results[j].Path \notin ProperAncestors(results[i].Path)

\* C8 witness: B adds the directory a with a/b/c below it, show-all is off, the
\* list holds a and neither a/b nor a/b/c.
C8_Witness ==
    /\ Reconciled /\ ~showAll
    /\ <<"a">> \in UniqueDirs(dirsB, dirsA)
    /\ <<"a", "b", "c">> \in UniqueFiles(filesB, filesA)
    /\ Reported(<<"a">>, "Added", TRUE)
    /\ ~Reported(<<"a", "b">>, "Added", TRUE)
    /\ ~Reported(<<"a", "b", "c">>, "Added", FALSE)

\* C9: a common path on which a hash call failed is reported Modified, the run
\* still reaches its verdict, and unless the run is cancelled every common
\* path has been processed.
C9_HashFailure ==
    (pc \in { "deferred", "returned", "exited" } /\ failed # {}) =>
        /\ Classified
        /\ \A p \in failed : Reported(p, "Modified", FALSE)
        /\ ~cancelled =>
              /\ jobCh = <<>>
              /\ progress = Cardinality(commonFilesOf(filesA, filesB))

\* C9 witness: of two common files with equal content the hash of one failed;
\* both were processed and the list holds that one file as Modified.
C9_Witness ==
    /\ Classified /\ ~cancelled
    /\ failed = { F } /\ ~ContentDiffers(F)
    /\ Cardinality(commonFilesOf(filesA, filesB)) = 2
    /\ progress = 2
    /\ Reported(F, "Modified", FALSE)
    /\ Len(results) = 1

\* C10 as stated: with a fast glob matching the large file, which is larger
\* than the fast limit and differs between the sides in its last byte only,
\* and everything else equal, no hash call failing, the file is not reported
\* Modified and the verdict is Identical.
C10_AsStated ==
    (/\ Classified /\ failed = {}
     /\ F \in fastSet
     /\ fsA[F].content = Large /\ fsB[F].content = LargeEnd
     /\ LargeSize > FastLimit
     /\ \A p \in Paths \ { F } : fsA[p] = fsB[p])
        => (~Reported(F, "Modified", FALSE) /\ ret = "nil")

\* offset k of a file of the given size lies strictly between the head
\* region and the middle region, or the middle region and the tail region
Between(k, size, limit) ==
    LET chunk == limit \div 3
        mid   == (size \div 2) - (chunk \div 2)
        last  == size - (limit - 2 * chunk)
    IN  /\ 0 <= k /\ k < size
        /\ (chunk <= k /\ k < mid) \/ (mid + chunk <= k /\ k < last)

\* the offsets at which the two files handed to the hasher differ
Differing ==
    (hEntryA.content.bs \ hEntryB.content.bs)
        \cup (hEntryB.content.bs \ hEntryA.content.bs)

BothHashed == DOMAIN hDigests = { "sparse", "full" }

\* C11: two files of equal size greater than limit > 0 that differ only at
\* offsets strictly between the sampled regions get equal digests with that
\* limit and different digests with limit 0, without an error.
C11_SparseVersusFull ==
    (/\ BothHashed
     /\ hLimit > 0 /\ hEntryA.content.size > hLimit
     /\ Differing # {}
     /\ \A k \in Differing : Between(k, hEntryA.content.size, hLimit))
        => /\ ~hDigests["sparse"].a.err /\ ~hDigests["sparse"].b.err
           /\ hDigests["sparse"].a.hash = hDigests["sparse"].b.hash
           /\ ~hDigests["full"].a.err /\ ~hDigests["full"].b.err
           /\ hDigests["full"].a.hash # hDigests["full"].b.hash

\* C11 witness: files of 7 bytes that differ at offset 2 only, limit 3 (the
\* regions are [0,1), [3,4), [6,7)): equal sparse digests, different full ones.
C11_Witness ==
    /\ BothHashed
    /\ hLimit = 3 /\ hEntryA.content.size = 7
    /\ Differing = { 2 }
    /\ hDigests["sparse"].a.hash = hDigests["sparse"].b.hash
    /\ hDigests["full"].a.hash # hDigests["full"].b.hash

\* both sides hold a symlink at "f", with the same target string
SameLink ==
    /\ fsA[F].kind = "link" /\ fsB[F].kind = "link"
    /\ fsA[F].content = fsB[F].content

NoItemAt(p) == \A i \in DOMAIN results : results[i].Path # p

\* the scan of both sides has recorded the symlink at "f" itself, with the
\* length of its target string as its size
LinkRecorded ==
    /\ F \in DOMAIN filesA /\ filesA[F] = fsA[F].content.size
    /\ F \in DOMAIN filesB /\ filesB[F] = fsB[F].content.size

TargetNeverOpened == <<"A", F>> \notin targetsOpened /\ <<"B", F>> \notin targetsOpened

----------------------------------------------------------------------------
\* the reader goroutine has read the ready message
SentinelRead == \E i \in 1 .. nread : TrimSpace(printed[i]) = READY_MSG

\* a Scan, GetMD5 or GetSHA request has been written to the subprocess
RequestWritten == \E i \in DOMAIN stdin : stdin[i] \in Methods

\* the Ping was the first request and the agent has replied to it
PingServed == stdin # <<>> /\ stdin[1] = "Ping" /\ served >= 1

NodeReturned == npc \in { "ready", "closed" }

\* NewRemoteNode returns its node in this step
ReturnsNode == npc # "ready" /\ npc' = "ready"

\* C13: no Scan, GetMD5 or GetSHA request is written before the ready message
\* has been read and the Ping has been replied to with success;
\* NewRemoteNode returns a node only after both; the agent has printed the
\* ready message before it serves a request.
C13_HandshakeOrdering ==
    /\ [](RequestWritten => SentinelRead /\ PingServed /\ NodeReturned)
    /\ [](NodeReturned => SentinelRead /\ PingServed /\ nret = "nil")
    /\ [][ReturnsNode => /\ call.m = "Ping" /\ call.stage = "replied"
                          /\ SentinelRead]_vars
    /\ [](agent = "serving" => printed[Len(printed)] = ReadyLine)
    /\ [](served > 0 => \E i \in DOMAIN printed : printed[i] = ReadyLine)

\* a request has been written and answered on a node whose subprocess
\* printed other lines before the ready message
C13_Witness ==
    /\ RequestWritten
    /\ Len(printed) > 1
    /\ call.m \in Methods /\ call.stage = "done" /\ ~call.callErr

----------------------------------------------------------------------------
\* the reader goroutine reads a line that is not the ready message
ReadsOtherLine ==
    /\ nread' = nread + 1
    /\ TrimSpace(printed[nread + 1]) # READY_MSG

\* the output has ended before the ready message was read
EofBeforeSentinel == rdr = "done" /\ ~SentinelRead

\* C14: a line other than the ready message changes nothing (the reader reads
\* on, nothing is sent on readyCh, NewRemoteNode stays where it is); when the
\* output ends before the ready message, no RPC client is created, no Ping is
\* written, and NewRemoteNode returns an error and no node.
C14_NoiseAndEarlyEof ==
    /\ [][ReadsOtherLine => /\ rdr' = "reading" /\ readyCh' = readyCh
                             /\ npc' = npc /\ sel' = sel /\ nret' = nret]_vars
    /\ [](EofBeforeSentinel =>
            /\ client = "none" /\ stdin = <<>>
            /\ npc \in { "select", "parked", "woken", "returned" }
            /\ npc = "returned" =>
                   nret \in { "disconnected before agent ready", "ctx.Err" })

\* the subprocess printed other lines and ended, and NewRemoteNode has
\* returned the error of the ready wait
C14_Witness ==
    /\ EofBeforeSentinel
    /\ nread >= 1
    /\ npc = "returned" /\ nret = "disconnected before agent ready"

----------------------------------------------------------------------------
\* ctx was cancelled while NewRemoteNode was parked in its select
CancelledWhileWaiting == cancelledAt = "parked"

ReturnedCtxErr == npc = "returned" /\ nret = "ctx.Err"

\* C15: when ctx is cancelled while NewRemoteNode waits for the ready message,
\* the select is left through the ctx.Done() case and NewRemoteNode returns
\* ctx.Err(), with no further step of the subprocess or of the reader.
C15_CancelWhileWaiting ==
    /\ [](CancelledWhileWaiting =>
            \/ npc = "woken" /\ sel = "ctx"
            \/ ReturnedCtxErr)
    /\ (CancelledWhileWaiting ~> ReturnedCtxErr)

\* NewRemoteNode has returned ctx.Err() while the reader goroutine is still
\* reading: neither the ready message nor the end of the output has arrived
C15_Witness ==
    /\ CancelledWhileWaiting
    /\ ReturnedCtxErr
    /\ rdr = "reading"

----------------------------------------------------------------------------
Sides == { "A", "B" }

\* createNode has returned a node for the side
Created(side) == kind[side] # "none"

\* the calls of Close on the node of the side
ClosesOf(side) ==
    Cardinality({ i \in DOMAIN closeLog :
                    /\ closeLog[i][1] = side
                    /\ closeLog[i][2] \in { "Close", "client.Close" } })

RunMasterReturned == pc \in { "returned", "exited" }

\* C16: when runMaster has returned, whatever it returns, every node that
\* createNode returned has been closed exactly once and no other; a remote
\* node's Close is client.Close() followed by cmd.Wait().
C16_ClosedExactlyOnce ==
    /\ \A side \in Sides : ClosesOf(side) <= 1
    /\ RunMasterReturned =>
          \A side \in Sides : ClosesOf(side) = IF Created(side) THEN 1 ELSE 0
    /\ \A i \in DOMAIN closeLog :
          /\ closeLog[i][2] = "client.Close" =>
                /\ kind[closeLog[i][1]] = "remote"
                /\ i < Len(closeLog)
                /\ closeLog[i + 1] = <<closeLog[i][1], "cmd.Wait">>
          /\ closeLog[i][2] = "cmd.Wait" =>
                /\ i > 1
                /\ closeLog[i - 1] = <<closeLog[i][1], "client.Close">>
          /\ closeLog[i][2] = "Close" => kind[closeLog[i][1]] = "local"

\* a cancelled run with a remote side A and a local side B has returned
C16_Witness ==
    /\ RunMasterReturned
    /\ cancelled
    /\ kind["A"] = "remote" /\ kind["B"] = "local"
    /\ closeLog = << <<"B", "Close">>, <<"A", "client.Close">>, <<"A", "cmd.Wait">> >>

----------------------------------------------------------------------------
\* a Scan, GetMD5 or GetSHA call on the remote node has returned
CallReturned == call.m \in Methods /\ call.stage = "done"

\* the agent has written the reply of such a call
Replied == call.m \in Methods /\ call.stage = "replied"

\* C17: when the agent's coreScan, coreMD5 or coreSHA fails, the reply carries
\* a non-empty Error and the RemoteNode method returns an error; a reply with
\* a non-empty Error and an error of client.Call are returned as errors too.
C17_ErrorPropagation ==
    /\ Replied => (call.local.err => call.reply.Error # "")
    /\ CallReturned =>
          /\ call.local.err => call.result.err
          /\ call.reply.Error # "" => call.result.err
          /\ call.callErr => call.result.err

\* a hash call whose core function failed on the agent's side has returned,
\* the RPC call itself having succeeded
C17_Witness ==
    /\ CallReturned
    /\ call.m \in { "GetMD5", "GetSHA" }
    /\ call.local.err /\ ~call.callErr
    /\ call.reply.Error = ErrorText
    /\ call.result.err

----------------------------------------------------------------------------
----------------------------------------------------------------------------
\* the root of a side does not exist
BadRoot == fsA = Missing \/ fsB = Missing

\* C19 as stated: when the root of a side does not exist, the scan of that
\* side fails and runMaster returns a scan error; it never returns a verdict
\* made from an empty scan result.
C19_AsStated == BadRoot => ~Classified

----------------------------------------------------------------------------
\* C20 as stated: once ctx is cancelled, no worker takes a path from jobCh:
\* the paths queued at the moment of cancellation stay where they are.
C20_AsStated == [][cancelled => jobCh' = jobCh]_vars

----------------------------------------------------------------------------
\* the logged calls of a method on the node of a side for a path
CallsOf(method, side, p) ==
    { e \in hashLog : e.call = method /\ e.side = side /\ e.path = p }

\* both GetMD5 calls for the path returned without error, with equal digests
QuickHashPassed(p) ==
    \E a \in CallsOf("GetMD5", "A", p) : \E b \in CallsOf("GetMD5", "B", p) :
        ~a.err /\ ~b.err /\ a.hash = b.hash

\* C23: no GetMD5 or GetSHA call is made for a path whose two scanned sizes
\* differ; GetSHA is called for a path only after both GetMD5 calls for it
\* returned without error with equal digests; no call is made twice.
C23_StageOrder ==
    /\ \A e \in hashLog :
          /\ e.path \in DOMAIN filesA \cap DOMAIN filesB
          /\ ~(filesA[e.path] # filesB[e.path])
          /\ e.call = "GetSHA" => QuickHashPassed(e.path)
          /\ Cardinality(CallsOf(e.call, e.side, e.path)) = 1
    /\ \A w \in DOMAIN wpc :
          /\ wpc[w] = "md5" => filesA[wjob[w]] = filesB[wjob[w]]
          /\ wpc[w] = "sha" => QuickHashPassed(wjob[w])

\* a path went through all three stages and was classified Modified by the
\* last one, while another common path never reached a hash call
C23_Witness ==
    /\ Classified
    /\ \E e \in hashLog : e.call = "GetSHA" /\ Reported(e.path, "Modified", FALSE)
    /\ \E p \in DOMAIN filesA \cap DOMAIN filesB :
          /\ filesA[p] # filesB[p]
          /\ Reported(p, "Modified", FALSE)

----------------------------------------------------------------------------
\* both path arguments name the same local directory: the two nodes read
\* the same tree, and a file that cannot be read fails on both sides
SameDirectory ==
    /\ fsA = fsB
    /\ fsA \notin { Unread, Missing }
    /\ kind = [side \in { "A", "B" } |-> "local"]
    /\ \A a, b \in hashLog :
          (a.call = b.call /\ a.path = b.path) => a.err = b.err

\* C21 as stated: when both path arguments resolve to the same directory,
\* runMaster returns nil with no diff item, whatever the directory holds.
C21_AsStated == (SameDirectory /\ Classified) => (ret = "nil" /\ results = <<>>)

----------------------------------------------------------------------------
\* the paths both scans recorded as files
CommonPaths == DOMAIN filesA \cap DOMAIN filesB

\* both calls of the method for the path returned without error, equal digests
StagePassed(method, p) ==
    \E a \in CallsOf(method, "A", p) : \E b \in CallsOf(method, "B", p) :
        ~a.err /\ ~b.err /\ a.hash = b.hash

\* a call of the method for the path failed, or the two digests differ
StageFailed(method, p) ==
    \/ \E e \in CallsOf(method, "A", p) \cup CallsOf(method, "B", p) : e.err
    \/ \E a \in CallsOf(method, "A", p) : \E b \in CallsOf(method, "B", p) :
          a.hash # b.hash

PassedAllStages(p) ==
    /\ filesA[p] = filesB[p]
    /\ StagePassed("GetMD5", p)
    /\ StagePassed("GetSHA", p)

FailedAStage(p) ==
    \/ filesA[p] # filesB[p]
    \/ StageFailed("GetMD5", p)
    \/ StageFailed("GetSHA", p)

\* the items of the final list for a path
ItemsOf(p) == { i \in DOMAIN results : results[i].Path = p }

\* a run with at least one worker that was never cancelled has returned
FullRunClassified == Classified /\ ~cancelled /\ workers >= 1

\* C24: when a run with at least one worker and no cancellation has been
\* classified, every common path has passed all three stages or failed one;
\* a path that failed has exactly one item, a Modified file item, and a path
\* that passed has none.
C24_ModifiedItems ==
    FullRunClassified =>
        \A p \in CommonPaths :
            /\ PassedAllStages(p) # FailedAStage(p)
            /\ FailedAStage(p) =>
                  /\ Cardinality(ItemsOf(p)) = 1
                  /\ \A i \in ItemsOf(p) : results[i] = Item(p, "Modified", FALSE)
            /\ PassedAllStages(p) => ItemsOf(p) = {}

\* two common paths, one that passed all stages and one that failed one
C24_Witness ==
    /\ FullRunClassified
    /\ \E p, q \in CommonPaths : PassedAllStages(p) /\ FailedAStage(q)

----------------------------------------------------------------------------
\* the jobs a worker is working on
InFlight == { w \in DOMAIN wpc : wpc[w] \in { "md5", "sha" } }

\* the capacity of jobCh, resultCh and progressCh: len(commonFiles)
Capacity == Cardinality(CommonPaths)

\* the concurrent phase has been started with at least one worker
PoolStarted == pc = "wait" /\ workers >= 1

\* wg.Wait() has returned and the results are drained
PoolDone == Classified /\ jobCh = <<>>

\* C25: a concurrent phase with at least one worker ends, unless it is
\* cancelled, with jobCh empty and every common path taken once; the paths
\* queued, in work and finished are at any moment the common paths, each
\* once; the results and progress signals sent never exceed the capacity
\* of their channels.
C25_PoolTerminates ==
    /\ [](pc = "wait" =>
            /\ Len(jobCh) + Cardinality(InFlight) + progress = Capacity
            /\ \A i, j \in DOMAIN jobCh : jobCh[i] = jobCh[j] => i = j
            /\ \A w \in InFlight :
                  /\ wjob[w] \in CommonPaths
                  /\ \A i \in DOMAIN jobCh : jobCh[i] # wjob[w]
                  /\ \A v \in InFlight : wjob[v] = wjob[w] => v = w
            /\ Len(resultCh) <= Capacity
            /\ progress <= Capacity)
    /\ [][(~cancelled' /\ PoolStarted /\ ~PoolStarted') =>
            (PoolDone' /\ progress' = Capacity)]_vars
    /\ (PoolStarted ~> (cancelled \/ PoolDone))

\* two workers have emptied a queue of two paths and the run was classified
C25_Witness ==
    /\ PoolDone /\ ~cancelled
    /\ workers = 2
    /\ Capacity = 2 /\ progress = 2

----------------------------------------------------------------------------
\* the job functions that return in this step: after stage 1 or 2, or right
\* after the pickup when the sizes differ (the worker is back at its select)
JobsEnded ==
    IF jobCh' # jobCh /\ wpc' = wpc THEN 1
    ELSE Cardinality({ w \in DOMAIN wpc :
                         wpc[w] \in { "md5", "sha" } /\ wpc'[w] = "select" })

----------------------------------------------------------------------------
\* the tree of a side
TreeOf(side) == IF side = "A" THEN fsA ELSE fsB

\* the digest of all the bytes of a file
WholeFileDigest(c) == [alg |-> "sha256", len |-> c.size, bs |-> c.bs]

\* C28: every GetSHA call for a path, on either side, is made with the fast
\* limit when the path matches a fast glob and with the global limit
\* otherwise; with limit 0 the digest returned is that of the whole file.
C28_StageTwoLimit ==
    \A e \in hashLog :
        e.call = "GetSHA" =>
            /\ e.limit = IF e.path \in fastSet THEN FastLimit ELSE globalLimit
            /\ \A o \in CallsOf("GetSHA", "A", e.path) \cup CallsOf("GetSHA", "B", e.path) :
                  o.limit = e.limit
            /\ (e.limit = 0 /\ ~e.err /\ TreeOf(e.side)[e.path].kind = "file") =>
                  e.hash = WholeFileDigest(TreeOf(e.side)[e.path].content)

\* a run with a fast glob and a global limit in which the path of the fast
\* glob was hashed with the fast limit on both sides
C28_Witness ==
    /\ Classified
    /\ globalLimit > 0 /\ globalLimit # FastLimit
    /\ \E a \in hashLog : \E b \in hashLog :
          /\ a.call = "GetSHA" /\ b.call = "GetSHA"
          /\ a.side = "A" /\ b.side = "B"
          /\ a.path = b.path /\ a.path \in fastSet
          /\ a.limit = FastLimit /\ b.limit = FastLimit
          /\ ~a.err /\ ~b.err

----------------------------------------------------------------------------
\* the two files handed to the hasher have the same size and the same
\* first 1024 bytes
SameHead ==
    /\ hEntryA.content.size = hEntryB.content.size
    /\ \A k \in Differing : k >= 1024

\* C27 as stated: two files of equal size whose first 1024 bytes are the
\* same get equal coreMD5 digests, whatever their other bytes.
C27_AsStated ==
    ("quick" \in DOMAIN hDigests /\ SameHead) =>
        hDigests["quick"].a.hash = hDigests["quick"].b.hash

----------------------------------------------------------------------------
\* some glob of the list matches the relative path p
Matches(globs, p) == \E g \in globs : p \in g

\* the paths below the directory d
Below(d) == { q \in Paths : d \in ProperAncestors(q) }

\* the directory p of side A matches no include glob and holds no file that
\* matches one
OutsideIncludes(p) ==
    /\ includes # {}
    /\ fsA[p].kind = "dir"
    /\ ~Matches(includes, p)
    /\ \A q \in Below(p) : fsA[q].kind = "file" => ~Matches(includes, q)

\* C22 as stated: with include globs configured, a directory that matches
\* no include glob and contains no include-matching file is not recorded by
\* the scan and produces no Added/Removed item.
C22_AsStated ==
    \A p \in Paths :
        (Reconciled /\ OutsideIncludes(p)) =>
            (p \notin Range(dirsA) /\ ItemsOf(p) = {})

----------------------------------------------------------------------------
\* nodeA.Scan has just returned without an error
ScannedA == pc = "scanB"

\* some exclude glob matches p or one of its ancestor directories
Pruned(p) == \E q \in { p } \cup ProperAncestors(p) : Matches(excludes, q)

\* C29: coreScan records a file if and only if no exclude glob matches it or
\* one of its ancestor directories and the include list is empty or has a
\* glob that matches it; nothing at or below an excluded path is in the
\* files or in the directories.
C29_ScannerFilter ==
    ScannedA =>
        \A p \in Paths :
            /\ fsA[p].kind = "file" =>
                  (p \in DOMAIN filesA
                      <=> (~Pruned(p) /\ (includes = {} \/ Matches(includes, p))))
            /\ Pruned(p) => (p \notin DOMAIN filesA /\ p \notin Range(dirsA))

\* the scan has met a file that matches an include glob below an excluded
\* directory and a file that no exclude glob prunes and no include glob
\* matches, and has recorded only the directory above them
C29_Witness ==
    /\ ScannedA
    /\ includes = { GlobC } /\ excludes = { GlobAB }
    /\ fsA[<<"a", "b">>].kind = "dir"
    /\ fsA[<<"a", "b", "c">>].kind = "file"
    /\ fsA[<<"f">>].kind = "file"
    /\ filesA = EmptyMap
    /\ dirsA = << <<"a">> >>

----------------------------------------------------------------------------
\* coreScan has returned
Scanned == pc = "scanned"

\* C30: with or without link-following, whatever the symlinks of the tree
\* point at, coreScan makes its last call of walk and returns.
C30_ScanTerminates == <>Scanned

\* coreScan has returned from a tree in which the link a/b points at the
\* root, its own ancestor: the link was followed once, and the second time
\* it was met, below itself, it was skipped
C30_Witness ==
    /\ Scanned /\ FollowSym
    /\ fsA[<<"a", "b">>] = SymTo(Root)
    /\ <<"a", "b", "a">> \in Range(dirsA)
    /\ <<"a", "b", "a", "b">> \notin Range(dirsA)
    /\ Root \in visitedPaths

----------------------------------------------------------------------------
\* C31: in the result of coreScan no path is both a file and a directory,
\* no directory is listed twice, and the root is neither a file nor a
\* directory of the result.
C31_ScanResultWellFormed ==
    Scanned =>
        /\ DOMAIN filesA \cap Range(dirsA) = {}
        /\ Cardinality(Range(dirsA)) = Len(dirsA)
        /\ Root \notin DOMAIN filesA \cup Range(dirsA)

\* coreScan has returned files and at least two directories, one of them
\* reached through a followed link
C31_Witness ==
    /\ Scanned /\ FollowSym
    /\ filesA # EmptyMap
    /\ Len(dirsA) >= 2
    /\ \E p \in Paths : fsA[p].kind = "link" /\ p \in Range(dirsA)

----------------------------------------------------------------------------
\* the regions the claim names, for a file of the given size and a limit
StatedRegions(size, limit) ==
    LET chunk     == limit \div 3
        lastChunk == limit - 2 * chunk
        mid       == (size \div 2) - (chunk \div 2)
    IN  << [from |-> 0, to |-> chunk],
           [from |-> mid, to |-> mid + chunk],
           [from |-> size - lastChunk, to |-> size] >>

----------------------------------------------------------------------------
\* the bytes read since the last password was written, or since the start
SinceFiring(buf) ==
    LET last == IF fired = {} THEN 0
                ELSE CHOOSE n \in fired : \A m \in fired : m <= n
    IN  SubSeq(buf, last + 1, Len(buf))

\* the last len(marker) bytes of s are the marker
EndsWithMarker(s) ==
    /\ Len(s) >= Len(promptMarker)
    /\ SubSeq(s, Len(s) - Len(promptMarker) + 1, Len(s)) = promptMarker

\* C33: when a byte is read, the window holds at most len(marker) bytes;
\* one newline-terminated password is written exactly when the last
\* len(marker) bytes read since the previous firing equal the marker, and
\* then the window is empty; nothing is written otherwise.
C33_PromptAutomaton ==
    [][ /\ Len(window') <= Len(promptMarker)
        /\ stderrBuf' # stderrBuf =>
              /\ stdin' # stdin <=> EndsWithMarker(SinceFiring(stderrBuf'))
              /\ stdin' # stdin =>
                    /\ Len(stdin') = Len(stdin) + 1
                    /\ stdin'[Len(stdin')][2] = "\n"
                    /\ window' = <<>>
        /\ stderrBuf' = stderrBuf => stdin' = stdin ]_vars

\* the stream "pqpqp" was read: the password was written once, after the
\* third byte, and the bytes "qp" that follow did not fire again
C33_Witness ==
    /\ stderrBuf = << "p", "q", "p", "q", "p" >>
    /\ fired = { 3 }
    /\ Len(stdin) = 1
    /\ window = << "q", "p" >>

----------------------------------------------------------------------------
\* C34: in the result of coreScan every proper ancestor directory, other
\* than the root, of a recorded file or directory is itself a recorded
\* directory.
C34_AncestorClosure ==
    Scanned =>
        \A p \in DOMAIN filesA \cup Range(dirsA) :
            \A q \in ProperAncestors(p) : q \in Range(dirsA)

\* coreScan has returned the file a/b/c, the only path that the include
\* glob matches, with both directories above it
C34_Witness ==
    /\ Scanned
    /\ includes = { GlobC }
    /\ <<"a", "b", "c">> \in DOMAIN filesA
    /\ { <<"a">>, <<"a", "b">> } \subseteq Range(dirsA)

----------------------------------------------------------------------------
\* C35 as stated: in the diff list of a run every relative path occurs in at
\* most one item, whatever the two scan results are.
C35_AsStated ==
    Reconciled => \A p \in Paths : Cardinality(ItemsOf(p)) <= 1

----------------------------------------------------------------------------
\* the common paths that no worker has taken from jobCh
Unprocessed == Range(jobCh)

\* C36 as stated: when cancellation has left at least one common path
\* unprocessed, the run does not return nil.
C36_AsStated ==
    (Classified /\ cancelled /\ Unprocessed # {}) => ret # "nil"

----------------------------------------------------------------------------
\* C37 as stated: the diff items of a run that was not cancelled are the
\* same for every worker count. A common path whose two sizes differ needs
\* no hash call and is reported Modified by every run with a worker, so it
\* is reported Modified whatever the worker count is.
C37_AsStated ==
    (Classified /\ ~cancelled) =>
        \A p \in CommonPaths :
            filesA[p] # filesB[p] => Reported(p, "Modified", FALSE)

----------------------------------------------------------------------------
\* the entry of side A at p is a symlink that resolves to a regular file
ResolvesToFile(p) == fsA[p].kind = "link" /\ fsA[p].target.path # ""

\* C38 as stated: with link-following, every symlink that resolves to an
\* existing regular file (no glob is configured) is recorded in the files
\* with the size of its target, however many links share that target.
C38_AsStated ==
    (ScannedA /\ FollowSym) =>
        \A p \in Paths :
            ResolvesToFile(p) =>
                /\ p \in DOMAIN filesA
                /\ filesA[p] = fsA[p].target.content.size

----------------------------------------------------------------------------
\* NewRemoteNode has returned an error after cmd.Start() succeeded
FailedAfterStart == npc = "returned" /\ agent # "none"

\* C39 as stated: on every error return of NewRemoteNode after the
\* subprocess was started, cmd.Wait() has returned before NewRemoteNode does.
C39_AsStated == FailedAfterStart => waited

----------------------------------------------------------------------------
\* a worker is between the start and the return of a hash call
HashInFlight == \E w \in DOMAIN wpc : wpc[w] \in { "md5", "sha" }

\* every worker goroutine has returned
WorkersReturned == \A w \in DOMAIN wpc : wpc[w] = "done"

\* a Close call has been made
CloseInvoked == closeLog # <<>>

\* C40: once the result list is classified, and once a Close has been
\* invoked, every worker has returned and no hash call is in flight; no
\* hash call is made after a Close.
C40_NoHashAfterClose ==
    /\ []((Classified \/ CloseInvoked) => (WorkersReturned /\ ~HashInFlight))
    /\ [][CloseInvoked => hashLog' = hashLog]_vars

\* the nodes were closed after a run with two workers that was cancelled
\* while hash calls had been made
C40_Witness ==
    /\ CloseInvoked
    /\ cancelled
    /\ workers = 2
    /\ hashLog # {}

====
